---- MODULE Spec2Model ----
(***************************************************************************)
(* 3whale income v1: the sync processor (syncOrdersIncomeV1), the order    *)
(* normalizer (mapOrderToNormalized), the income calculator               *)
(* (computeIncomeComponents, shouldExcludeOrderV1) and the store they      *)
(* write (sync_state, shopify_order_raw, order_income_v1, sync_run_log),   *)
(* and the query API over that store (daily, daily-v2, summary-v2, order   *)
(* list, order detail, reconcile).  The sync counts time in whole days,    *)
(* the query API in whole hours; amounts are integers (decimal.js is       *)
(* exact, so integer arithmetic stands for it).                            *)
(***************************************************************************)
EXTENDS Integers, Sequences, FiniteSets, TLC

VARIABLES
    source,          \* the platform's orders: id -> <<>> (no such order) or <<node>>
    clock,           \* what new Date() returns
    shopConfig,      \* TRUE when the shop_config singleton row exists
    syncState,       \* the sync_state singleton row
    shopifyOrderRaw, \* shopify_order_raw: id -> <<>> or <<row>>
    orderIncomeV1,   \* order_income_v1: id -> <<>> or <<row>>
    syncRunLog,      \* sync_run_log rows, the row id is the index
    run,             \* each worker slot's position in syncOrdersIncomeV1 and its locals
    hist,            \* per slot: the store as it was when the slot's run started
    prev,            \* the store as the last finished run left it
    budget,          \* how many runs and source changes are still to come
    api              \* the last request to the query API and its response

vars == <<source, clock, shopConfig, syncState, shopifyOrderRaw, orderIncomeV1,
          syncRunLog, run, hist, prev, budget, api>>

----------------------------------------------------------------------------
(* Bounds of the model *)

NumOrders == 2
MaxRuns == 2
MaxSourceChanges == 1
\* SHOPIFY_SYNC_PAGE_SIZE as deployed in the model (the default is 100)
PageSize == 1

(* Program constants *)

OVERLAP_DAYS == 2
INITIAL_BACKFILL_DAYS == 30

\* processedAt: string | null, and the nullable timestamptz columns
NoTime == 0
\* pageInfo.endCursor: string | null
NoCursor == 0

OrderIds == 1..NumOrders
Procs == {1, 2}
ShopCurrency == "MXN"
Currencies == {"MXN", "USD"}

\* the first instant of the model: late enough for the backfill window to start after day 1
StartOfTime == INITIAL_BACKFILL_DAYS + OVERLAP_DAYS + 1
\* the days the clock shows
Days == {StartOfTime, StartOfTime + 1}
\* settlement days the source may report: the first day of the first backfill window and
\* the day before it
EdgeTime == StartOfTime - INITIAL_BACKFILL_DAYS
PTimes == {EdgeTime - 1, EdgeTime}

----------------------------------------------------------------------------
(* Money toolkit: src/src/metrics/shopifyOrderTypes.ts (money part) *)

Money(a, c) == [amount |-> a, currencyCode |-> c]

zeroMoney(c) == Money(0, c)

\* an assertion that never throws
assertSameCurrencyNeverThrows(a, b) == TRUE

\* TRUE when assertSameCurrency returns, FALSE when it throws
assertSameCurrency(a, b) == a.currencyCode = b.currencyCode

\* defined only where assertSameCurrency holds; callers test that first
addMoney(a, b) == Money(a.amount + b.amount, a.currencyCode)

subMoney(a, b) == Money(a.amount - b.amount, a.currencyCode)

cmpMoney(a, b) ==
    IF a.amount < b.amount THEN -1 ELSE IF a.amount > b.amount THEN 1 ELSE 0

----------------------------------------------------------------------------
(* Order normalizer: src/src/shopify/mappers/mapOrderToNormalized.ts *)

\* a MoneySet | null is <<>> or <<shopMoney>>
shopMoneyOk(set, c) == set = <<>> \/ set[1].currencyCode = c

shopMoneyToMoney(set, c) == IF set = <<>> THEN Money(0, c) ELSE Money(set[1].amount, c)

RECURSIVE SumAmounts(_)
SumAmounts(s) == IF s = <<>> THEN 0 ELSE s[1].amount + SumAmounts(Tail(s))

\* every refund line item's subtotalSet, where present, is in currency c
refundLinesOk(node, c) ==
    \A i \in 1..Len(node.refundLineItems) : shopMoneyOk(node.refundLineItems[i], c)

refundLineItemsSubtotalAmount(node, c) ==
    Money(SumAmounts([i \in 1..Len(node.refundLineItems) |->
                         shopMoneyToMoney(node.refundLineItems[i], c)]), c)

\* the per-refund amount: totalRefunded unless it is 0 and the line items sum is > 0
refundAmount(node, c) ==
    LET totalRefunded == shopMoneyToMoney(<<node.totalRefundedSet>>, c)
        lines == refundLineItemsSubtotalAmount(node, c)
    IN  IF totalRefunded.amount = 0 /\ lines.amount > 0 THEN lines ELSE totalRefunded

\* the error mapOrderToNormalized throws on order node o, "" when it returns
mapOrderError(o) ==
    IF o.processedAt = NoTime THEN "missing processedAt"
    ELSE IF o.currentSubtotalPriceSet = <<>> THEN "missing currentSubtotalPriceSet"
    ELSE LET c == o.currentSubtotalPriceSet[1].currencyCode
         IN  IF /\ shopMoneyOk(o.currentShippingPriceSet, c)
                /\ shopMoneyOk(o.currentTotalTaxSet, c)
                /\ shopMoneyOk(o.currentTotalDiscountsSet, c)
                /\ \A i \in 1..Len(o.refunds) :
                      /\ o.refunds[i].totalRefundedSet.currencyCode = c
                      /\ refundLinesOk(o.refunds[i], c)
             THEN ""
             ELSE "Currency mismatch"

\* what mapOrderToNormalized returns where it does not throw
mapOrderToNormalized(o) ==
    LET c == o.currentSubtotalPriceSet[1].currencyCode
    IN  [order |-> [id |-> o.id,
                    processedAt |-> o.processedAt,
                    currencyCode |-> c,
                    isTest |-> o.test,
                    cancelledAt |-> o.cancelledAt,
                    lineItemsSubtotal |-> shopMoneyToMoney(o.currentSubtotalPriceSet, c),
                    shippingAmount |-> shopMoneyToMoney(o.currentShippingPriceSet, c),
                    taxAmount |-> shopMoneyToMoney(o.currentTotalTaxSet, c),
                    discountAmount |-> shopMoneyToMoney(o.currentTotalDiscountsSet, c)],
         refunds |-> [i \in 1..Len(o.refunds) |->
                        [id |-> o.refunds[i].id,
                         createdAt |-> o.refunds[i].createdAt,
                         amount |-> refundAmount(o.refunds[i], c)]]]

----------------------------------------------------------------------------
(* Income calculator: src/src/metrics/computeIncomeComponents.ts *)

\* TRUE when computeIncomeComponents passes its currency assertions
componentsOk(order, refunds) ==
    LET z == zeroMoney(order.currencyCode)
    IN  /\ assertSameCurrency(order.lineItemsSubtotal, z)
        /\ assertSameCurrency(order.shippingAmount, z)
        /\ assertSameCurrency(order.taxAmount, z)
        /\ assertSameCurrency(order.discountAmount, z)
        /\ \A i \in 1..Len(refunds) : assertSameCurrency(refunds[i].amount, z)

\* a calculator that counts the tax as income
computeIncomeComponentsWithTax(order, refunds) ==
    LET currencyCode == order.currencyCode
        refundsSum == Money(SumAmounts([i \in 1..Len(refunds) |-> refunds[i].amount]),
                            currencyCode)
        income_bruto == addMoney(addMoney(order.lineItemsSubtotal, order.shippingAmount),
                                 order.taxAmount)
        income_neto == subMoney(income_bruto, refundsSum)
    IN  [currencyCode |-> currencyCode,
         line_items_subtotal |-> income_neto,
         shipping_amount |-> order.shippingAmount,
         tax_amount |-> order.taxAmount,
         discount_amount |-> order.discountAmount,
         income_bruto |-> income_bruto,
         refunds |-> refundsSum,
         income_neto |-> income_neto]

computeIncomeComponents(order, refunds) ==
    LET currencyCode == order.currencyCode
        refundsSum == Money(SumAmounts([i \in 1..Len(refunds) |-> refunds[i].amount]),
                            currencyCode)
        income_bruto == addMoney(order.lineItemsSubtotal, order.shippingAmount)
        income_neto == subMoney(income_bruto, refundsSum)
    IN  [currencyCode |-> currencyCode,
         line_items_subtotal |-> income_neto,
         shipping_amount |-> order.shippingAmount,
         tax_amount |-> order.taxAmount,
         discount_amount |-> order.discountAmount,
         income_bruto |-> income_bruto,
         refunds |-> refundsSum,
         income_neto |-> income_neto]

\* an exclusion decision that looks at the refunds before the cancellation and the test
\* flag
shouldExcludeRefundsFirst(order, refunds) ==
    LET components == computeIncomeComponents(order, refunds)
    IN  IF cmpMoney(components.refunds, components.income_bruto) >= 0
        THEN [exclude |-> TRUE, reason |-> "fully_refunded"]
        ELSE IF order.cancelledAt # NoTime THEN [exclude |-> TRUE, reason |-> "cancelled"]
        ELSE IF order.isTest = TRUE THEN [exclude |-> TRUE, reason |-> "test"]
        ELSE [exclude |-> FALSE, reason |-> ""]

\* reason "" stands for the absent reason of an included order
shouldExcludeOrderV1(order, refunds) ==
    IF order.cancelledAt # NoTime THEN [exclude |-> TRUE, reason |-> "cancelled"]
    ELSE IF order.isTest = TRUE THEN [exclude |-> TRUE, reason |-> "test"]
    ELSE LET components == computeIncomeComponents(order, refunds)
         IN  IF cmpMoney(components.refunds, components.income_bruto) >= 0
             THEN [exclude |-> TRUE, reason |-> "fully_refunded"]
             ELSE [exclude |-> FALSE, reason |-> ""]

----------------------------------------------------------------------------
(* The source platform: the order nodes the Admin API may hold *)

Node(id, t, kind) ==
    LET c == IF kind = "foreign" THEN "USD" ELSE ShopCurrency
    IN  [id |-> id,
         processedAt |-> t,
         cancelledAt |-> IF kind = "cancelled" THEN t ELSE NoTime,
         test |-> FALSE,
         currentSubtotalPriceSet |-> IF kind = "nosub" THEN <<>> ELSE <<Money(10, c)>>,
         currentShippingPriceSet |-> <<Money(2, c)>>,
         currentTotalTaxSet |-> <<Money(1, c)>>,
         currentTotalDiscountsSet |-> <<>>,
         refunds |-> <<>>]

\* the nodes order id may be: paid on either day; cancelled, without subtotal or in another
\* currency on the later day; without processedAt, in the shop's currency or another
SyncNodes(id) ==
    {Node(id, t, "paid") : t \in PTimes}
        \cup {Node(id, EdgeTime, k) : k \in {"cancelled", "nosub", "foreign"}}
        \cup {Node(id, NoTime, k) : k \in {"paid", "foreign"}}

\* what the platform may hold under an order id: nothing, or one of its nodes
SourceValues(id) == {<<>>} \cup {<<n>> : n \in SyncNodes(id)}

\* what the platform holds at the start: under each id nothing, or a paid order
SeedValues(id) == {<<>>} \cup {<<Node(id, t, "paid")>> : t \in PTimes}

\* orders matching `processed_at:>=lower`; the API is not known to leave out an order
\* without processedAt, and the processor handles one, so such an order may be returned
InWindow(lower) ==
    {id \in OrderIds : /\ source[id] # <<>>
                       /\ \/ source[id][1].processedAt = NoTime
                          \/ source[id][1].processedAt >= lower}

\* the ids of one page: the first PageSize matches after the cursor, in id order
PageIds(lower, after) ==
    LET cand == {id \in InWindow(lower) : id > after}
    IN  {id \in cand : Cardinality({j \in cand : j < id}) < PageSize}

SetMin(S) == CHOOSE x \in S : \A y \in S : x <= y
SetMax(S) == CHOOSE x \in S : \A y \in S : x >= y

RECURSIVE IdSeq(_)
IdSeq(S) == IF S = {} THEN <<>> ELSE <<SetMin(S)>> \o IdSeq(S \ {SetMin(S)})

\* data.orders of one shopifyGraphqlRequest
OrdersPage(lower, after) ==
    LET ids == PageIds(lower, after)
        rest == {id \in InWindow(lower) : id > after} \ ids
        s == IdSeq(ids)
    IN  [nodes |-> [i \in 1..Len(s) |-> source[s[i]][1]],
         hasNextPage |-> rest # {},
         endCursor |-> IF ids = {} THEN NoCursor ELSE SetMax(ids)]

----------------------------------------------------------------------------
(* The store *)

NoSyncState ==
    [exists |-> FALSE, watermarkProcessedAt |-> NoTime, lastSyncStartedAt |-> NoTime,
     lastSyncFinishedAt |-> NoTime, lastSyncStatus |-> "null", lastSyncError |-> ""]

EmptyTable == [id \in OrderIds |-> <<>>]

IdleRun ==
    [pc |-> "idle", outcome |-> "none", now |-> NoTime, effectiveWatermark |-> NoTime,
     runLogId |-> 0, ordersFetched |-> 0, ordersUpserted |-> 0, ordersExcluded |-> 0,
     lastCursor |-> NoCursor, maxProcessedAtSeen |-> NoTime, after |-> NoCursor,
     hasNextPage |-> TRUE, nodes |-> <<>>, err |-> ""]

\* no request has been made to the query API
NoRequest == [op |-> "none", status |-> 0]

NoPrev == [valid |-> FALSE, outcome |-> "none", reached |-> {}, clean |-> FALSE]

NoHist ==
    [watermark |-> NoTime, raw |-> EmptyTable, inc |-> EmptyTable, reached |-> {},
     srcChanged |-> FALSE, failed |-> <<>>, before |-> NoPrev, first |-> FALSE,
     overlap |-> FALSE, log |-> <<>>]

Init ==
    /\ source \in [OrderIds -> UNION {SeedValues(id) : id \in OrderIds}]
    /\ \A id \in OrderIds : source[id] \in SeedValues(id)
    /\ clock = StartOfTime
    /\ shopConfig = FALSE
    /\ syncState = NoSyncState
    /\ shopifyOrderRaw = EmptyTable
    /\ orderIncomeV1 = EmptyTable
    /\ syncRunLog = <<>>
    /\ run = [p \in Procs |-> IdleRun]
    /\ hist = [p \in Procs |-> NoHist]
    /\ prev = NoPrev
    /\ budget = [runs |-> MaxRuns, changes |-> MaxSourceChanges]
    /\ api = NoRequest

Active(p) == run[p].pc \notin {"idle", "done"}

----------------------------------------------------------------------------
(* The environment *)

\* POST /internal/bootstrap: upsert shop_config, insert sync_state unless it exists
Bootstrap ==
    /\ shopConfig' = TRUE
    /\ syncState' = IF syncState.exists THEN syncState
                    ELSE [NoSyncState EXCEPT !.exists = TRUE]
    /\ UNCHANGED <<api, source, clock, shopifyOrderRaw, orderIncomeV1, syncRunLog, run, hist,
                   prev, budget>>

\* the platform creates, edits or deletes an order. A run reads the source only when it
\* fetches a page, so the changes that matter fall between runs or between two pages
SourceChange ==
    /\ budget.changes > 0
    /\ \A p \in Procs : ~Active(p) \/ (run[p].pc = "fetch" /\ run[p].after # NoCursor)
    /\ \E id \in OrderIds : \E v \in SourceValues(id) :
          /\ v # source[id]
          /\ source' = [source EXCEPT ![id] = v]
    /\ budget' = [budget EXCEPT !.changes = @ - 1]
    /\ hist' = [p \in Procs |->
                  IF Active(p) THEN [hist[p] EXCEPT !.srcChanged = TRUE] ELSE hist[p]]
    /\ prev' = [prev EXCEPT !.clean = FALSE]
    /\ UNCHANGED <<api, clock, shopConfig, syncState, shopifyOrderRaw, orderIncomeV1,
                   syncRunLog, run>>

\* a day passes; a run takes less than a day
Tick ==
    /\ clock + 1 \in Days
    /\ \A p \in Procs : ~Active(p)
    /\ clock' = clock + 1
    /\ UNCHANGED <<api, source, shopConfig, syncState, shopifyOrderRaw, orderIncomeV1,
                   syncRunLog, run, hist, prev, budget>>

----------------------------------------------------------------------------
(* syncOrdersIncomeV1, one action per await: src/unnamed/part_001 *)

\* a raw upsert that stamps the row with the time of the sync
RawRowStampedNow(node) == [processedAt |-> clock, payload |-> node]

\* the row the raw upsert writes (insert values and conflict set are the same)
RawRow(node) == [processedAt |-> node.processedAt, payload |-> node]

\* the row the order_income_v1 upsert writes; computed_at is now() on insert and
\* new Date() on conflict
IncomeRow(node, at) ==
    LET normalized == mapOrderToNormalized(node)
        components == computeIncomeComponents(normalized.order, normalized.refunds)
        exclusion == shouldExcludeOrderV1(normalized.order, normalized.refunds)
    IN  [shopifyOrderId |-> normalized.order.id,
         currencyCode |-> ShopCurrency,
         processedAt |-> node.processedAt,
         lineItemsSubtotal |-> components.line_items_subtotal.amount,
         shippingAmount |-> components.shipping_amount.amount,
         taxAmount |-> components.tax_amount.amount,
         discountAmount |-> components.discount_amount.amount,
         incomeBruto |-> components.income_bruto.amount,
         refunds |-> components.refunds.amount,
         incomeNeto |-> components.income_neto.amount,
         excluded |-> exclusion.exclude,
         excludedReason |-> exclusion.reason,
         computedAt |-> at]

\* the error the per-record block throws after the raw upsert, "" when it goes on to
\* the order_income_v1 upsert
deriveError(node) ==
    IF mapOrderError(node) # "" THEN mapOrderError(node)
    ELSE LET normalized == mapOrderToNormalized(node)
         IN  IF ~componentsOk(normalized.order, normalized.refunds) THEN "Currency mismatch"
             ELSE IF computeIncomeComponents(normalized.order, normalized.refunds).currencyCode
                        # ShopCurrency
                  THEN "Currency mismatch: order vs shop"
                  ELSE ""

\* loops that go round for another page whatever the last page reported
AfterRecordFetchesAgain(r) ==
    IF Len(r.nodes) > 1 THEN "node" ELSE "fetch"

\* where the loops go once the record at the head of the page is done with
AfterRecord(r) ==
    IF Len(r.nodes) > 1 THEN "node" ELSE IF r.hasNextPage THEN "fetch" ELSE "saveState"

\* lines 78-86: the lower bound of the fetch window
WindowOf(watermark, now) ==
    IF watermark # NoTime THEN watermark - OVERLAP_DAYS ELSE now - INITIAL_BACKFILL_DAYS

\* lines 57-66: read shop_config; without it the call throws before anything is written
Start(p) ==
    /\ run[p].pc \in {"idle", "done"}
    /\ budget.runs > 0
    /\ budget' = [budget EXCEPT !.runs = @ - 1]
    /\ run' = [run EXCEPT ![p] =
                 IF shopConfig THEN [IdleRun EXCEPT !.pc = "readState"]
                 ELSE [IdleRun EXCEPT !.pc = "done", !.outcome = "threw",
                                      !.err = "shop_config not found"]]
    /\ hist' = [hist EXCEPT ![p] =
                  [NoHist EXCEPT !.watermark = syncState.watermarkProcessedAt,
                                 !.raw = shopifyOrderRaw,
                                 !.inc = orderIncomeV1,
                                 !.before = prev,
                                 !.first = (budget.runs = MaxRuns),
                                 !.overlap = \E q \in Procs \ {p} : Active(q),
                                 !.log = syncRunLog]]
    /\ UNCHANGED <<api, source, clock, shopConfig, syncState, shopifyOrderRaw, orderIncomeV1,
                   syncRunLog, prev>>

\* lines 68-88: read sync_state (insert it when missing), take now, compute the window
ReadState(p) ==
    /\ run[p].pc = "readState"
    /\ syncState' = IF syncState.exists THEN syncState
                    ELSE [NoSyncState EXCEPT !.exists = TRUE]
    /\ LET watermark == IF syncState.exists THEN syncState.watermarkProcessedAt ELSE NoTime
       IN  run' = [run EXCEPT ![p].pc = "markStarted",
                              ![p].now = clock,
                              ![p].effectiveWatermark = WindowOf(watermark, clock)]
    /\ UNCHANGED <<api, source, clock, shopConfig, shopifyOrderRaw, orderIncomeV1, syncRunLog,
                   hist, prev, budget>>

\* lines 90-97
MarkStarted(p) ==
    /\ run[p].pc = "markStarted"
    /\ syncState' = [syncState EXCEPT !.lastSyncStartedAt = run[p].now,
                                      !.lastSyncStatus = "null",
                                      !.lastSyncError = ""]
    /\ run' = [run EXCEPT ![p].pc = "insertRunLog"]
    /\ UNCHANGED <<api, source, clock, shopConfig, shopifyOrderRaw, orderIncomeV1, syncRunLog,
                   hist, prev, budget>>

\* a run that takes over the newest row of sync_run_log when there is one
InsertRunLogReusesRow(p) ==
    /\ run[p].pc = "insertRunLog"
    /\ LET row == [startedAt |-> run[p].now, finishedAt |-> NoTime,
                   status |-> "running", ordersFetched |-> 0,
                   ordersUpserted |-> 0, ordersExcluded |-> 0,
                   lastCursor |-> NoCursor, error |-> ""]
       IN  syncRunLog' = IF syncRunLog = <<>> THEN <<row>>
                         ELSE [syncRunLog EXCEPT ![Len(syncRunLog)] = row]
    /\ run' = [run EXCEPT ![p].pc = "fetch",
                          ![p].runLogId = IF syncRunLog = <<>> THEN 1 ELSE Len(syncRunLog)]
    /\ UNCHANGED <<api, source, clock, shopConfig, syncState, shopifyOrderRaw, orderIncomeV1,
                   hist, prev, budget>>

\* lines 99-118
InsertRunLog(p) ==
    /\ run[p].pc = "insertRunLog"
    /\ syncRunLog' = Append(syncRunLog,
                            [startedAt |-> run[p].now, finishedAt |-> NoTime,
                             status |-> "running", ordersFetched |-> 0,
                             ordersUpserted |-> 0, ordersExcluded |-> 0,
                             lastCursor |-> NoCursor, error |-> ""])
    /\ run' = [run EXCEPT ![p].pc = "fetch", ![p].runLogId = Len(syncRunLog) + 1]
    /\ UNCHANGED <<api, source, clock, shopConfig, syncState, shopifyOrderRaw, orderIncomeV1,
                   hist, prev, budget>>

\* lines 120-138: one page; an empty page ends the loops at once
FetchPage(p) ==
    /\ run[p].pc = "fetch"
    /\ LET data == OrdersPage(run[p].effectiveWatermark, run[p].after)
       IN  run' = [run EXCEPT ![p].nodes = data.nodes,
                              ![p].ordersFetched = @ + Len(data.nodes),
                              ![p].lastCursor = data.endCursor,
                              ![p].hasNextPage = data.hasNextPage,
                              ![p].after = IF data.nodes = <<>> THEN data.endCursor ELSE @,
                              ![p].pc = IF data.nodes # <<>> THEN "node"
                                        ELSE IF data.hasNextPage THEN "fetch"
                                        ELSE "saveState"]
    /\ UNCHANGED <<api, source, clock, shopConfig, syncState, shopifyOrderRaw, orderIncomeV1,
                   syncRunLog, hist, prev, budget>>

\* lines 127-132: shopifyGraphqlRequest throws (HTTP error, GraphQL errors, empty data)
FetchFail(p) ==
    /\ run[p].pc = "fetch"
    /\ run' = [run EXCEPT ![p].pc = "failState", ![p].err = "Shopify GraphQL error"]
    /\ UNCHANGED <<api, source, clock, shopConfig, syncState, shopifyOrderRaw, orderIncomeV1,
                   syncRunLog, hist, prev, budget>>

\* what leaving the record at the head of the page does to the locals (lines 235-238)
Leave(r) ==
    [r EXCEPT !.nodes = Tail(@),
              !.after = IF Len(r.nodes) > 1 THEN @ ELSE r.lastCursor,
              !.pc = AfterRecord(r)]

\* lines 146-147: a record without processedAt is passed over
SkipRecord(p) ==
    /\ run[p].pc = "node"
    /\ run[p].nodes[1].processedAt = NoTime
    /\ run' = [run EXCEPT ![p] = Leave(run[p])]
    /\ hist' = [hist EXCEPT ![p].reached = @ \cup {run[p].nodes[1]}]
    /\ UNCHANGED <<api, source, clock, shopConfig, syncState, shopifyOrderRaw, orderIncomeV1,
                   syncRunLog, prev, budget>>

\* lines 148-170: track the maximum, upsert the raw payload
UpsertRaw(p) ==
    /\ run[p].pc = "node"
    /\ run[p].nodes[1].processedAt # NoTime
    /\ LET node == run[p].nodes[1]
       IN  /\ run' = [run EXCEPT ![p].pc = "derive",
                                 ![p].maxProcessedAtSeen =
                                     IF @ = NoTime \/ node.processedAt > @
                                     THEN node.processedAt ELSE @]
           /\ shopifyOrderRaw' = [shopifyOrderRaw EXCEPT ![node.id] = <<RawRow(node)>>]
           /\ hist' = [hist EXCEPT ![p].reached = @ \cup {node}]
    /\ UNCHANGED <<api, source, clock, shopConfig, syncState, orderIncomeV1, syncRunLog, prev,
                   budget>>

\* a per-record block that upserts the order_income_v1 row before the shop currency check
DeriveFailAfterUpsert(p) ==
    /\ run[p].pc = "derive"
    /\ deriveError(run[p].nodes[1]) # ""
    /\ run' = [run EXCEPT ![p].pc = "failState", ![p].err = deriveError(run[p].nodes[1])]
    /\ hist' = [hist EXCEPT ![p].failed = <<run[p].nodes[1]>>]
    /\ orderIncomeV1' =
          IF mapOrderError(run[p].nodes[1]) = ""
          THEN [orderIncomeV1 EXCEPT ![run[p].nodes[1].id] =
                                        <<IncomeRow(run[p].nodes[1], clock)>>]
          ELSE orderIncomeV1
    /\ UNCHANGED <<api, source, clock, shopConfig, syncState, shopifyOrderRaw, syncRunLog, prev,
                   budget>>

\* lines 172-196: normalization, the calculator or the shop currency check throws
DeriveFail(p) ==
    /\ run[p].pc = "derive"
    /\ deriveError(run[p].nodes[1]) # ""
    /\ run' = [run EXCEPT ![p].pc = "failState", ![p].err = deriveError(run[p].nodes[1])]
    /\ hist' = [hist EXCEPT ![p].failed = <<run[p].nodes[1]>>]
    /\ UNCHANGED <<api, source, clock, shopConfig, syncState, shopifyOrderRaw, orderIncomeV1,
                   syncRunLog, prev, budget>>

\* an insert that leaves the row alone when the order id already has one
UpsertIncomeKeepsExisting(p) ==
    /\ run[p].pc = "derive"
    /\ deriveError(run[p].nodes[1]) = ""
    /\ LET node == run[p].nodes[1]
           row == IncomeRow(node, clock)
           r == Leave(run[p])
       IN  /\ orderIncomeV1' = IF orderIncomeV1[row.shopifyOrderId] # <<>> THEN orderIncomeV1
                               ELSE [orderIncomeV1 EXCEPT ![row.shopifyOrderId] = <<row>>]
           /\ run' = [run EXCEPT ![p] =
                        [r EXCEPT !.ordersExcluded = IF row.excluded THEN @ + 1 ELSE @,
                                  !.ordersUpserted = IF row.excluded THEN @ ELSE @ + 1]]
    /\ UNCHANGED <<api, source, clock, shopConfig, syncState, shopifyOrderRaw, syncRunLog, hist,
                   prev, budget>>

\* lines 172-238: count the record, upsert its order_income_v1 row
UpsertIncome(p) ==
    /\ run[p].pc = "derive"
    /\ deriveError(run[p].nodes[1]) = ""
    /\ LET node == run[p].nodes[1]
           row == IncomeRow(node, clock)
           r == Leave(run[p])
       IN  /\ orderIncomeV1' = [orderIncomeV1 EXCEPT ![row.shopifyOrderId] = <<row>>]
           /\ run' = [run EXCEPT ![p] =
                        [r EXCEPT !.ordersExcluded = IF row.excluded THEN @ + 1 ELSE @,
                                  !.ordersUpserted = IF row.excluded THEN @ ELSE @ + 1]]
    /\ UNCHANGED <<api, source, clock, shopConfig, syncState, shopifyOrderRaw, syncRunLog, hist,
                   prev, budget>>

\* the sync_state the success branch writes (lines 240-249)
SuccessState(r, at) ==
    [syncState EXCEPT !.watermarkProcessedAt = r.maxProcessedAtSeen,
                      !.lastSyncFinishedAt = at,
                      !.lastSyncStatus = "success",
                      !.lastSyncError = ""]

\* a catch branch that moves the watermark as the success branch does
FailureStateMovesWatermark(r, at) ==
    [syncState EXCEPT !.watermarkProcessedAt = r.maxProcessedAtSeen,
                      !.lastSyncFinishedAt = at,
                      !.lastSyncStatus = "failure",
                      !.lastSyncError = r.err]

\* the sync_state the catch branch writes (lines 266-275)
FailureState(r, at) ==
    [syncState EXCEPT !.lastSyncFinishedAt = at,
                      !.lastSyncStatus = "failure",
                      !.lastSyncError = r.err]

\* lines 240-249
SaveState(p) ==
    /\ run[p].pc = "saveState"
    /\ syncState' = SuccessState(run[p], clock)
    /\ run' = [run EXCEPT ![p].pc = "saveLog", ![p].now = clock]
    /\ UNCHANGED <<api, source, clock, shopConfig, shopifyOrderRaw, orderIncomeV1, syncRunLog,
                   hist, prev, budget>>

\* a run log whose finished rows carry the error and the counts but keep status running
FinishedLogKeepsRunning(r, status) ==
    [syncRunLog[r.runLogId] EXCEPT !.finishedAt = r.now,
                                   !.status = IF status = "failure" THEN "running" ELSE status,
                                   !.ordersFetched = r.ordersFetched,
                                   !.ordersUpserted = r.ordersUpserted,
                                   !.ordersExcluded = r.ordersExcluded,
                                   !.lastCursor = r.lastCursor,
                                   !.error = r.err]

\* the run's sync_run_log row as both branches finish it (lines 251-262, 277-288)
FinishedLog(r, status) ==
    [syncRunLog[r.runLogId] EXCEPT !.finishedAt = r.now,
                                   !.status = status,
                                   !.ordersFetched = r.ordersFetched,
                                   !.ordersUpserted = r.ordersUpserted,
                                   !.ordersExcluded = r.ordersExcluded,
                                   !.lastCursor = r.lastCursor,
                                   !.error = r.err]

\* what the finished run leaves for the next one to be compared with
Finished(p, outcome) ==
    [valid |-> TRUE, outcome |-> outcome, reached |-> hist[p].reached,
     clean |-> ~hist[p].srcChanged]

\* lines 251-264
SaveLog(p) ==
    /\ run[p].pc = "saveLog"
    /\ syncRunLog' = [syncRunLog EXCEPT ![run[p].runLogId] = FinishedLog(run[p], "success")]
    /\ run' = [run EXCEPT ![p].pc = "done", ![p].outcome = "success"]
    /\ prev' = Finished(p, "success")
    /\ UNCHANGED <<api, source, clock, shopConfig, syncState, shopifyOrderRaw, orderIncomeV1,
                   hist, budget>>

\* lines 265-275
FailState(p) ==
    /\ run[p].pc = "failState"
    /\ syncState' = FailureState(run[p], clock)
    /\ run' = [run EXCEPT ![p].pc = "failLog", ![p].now = clock]
    /\ UNCHANGED <<api, source, clock, shopConfig, shopifyOrderRaw, orderIncomeV1, syncRunLog,
                   hist, prev, budget>>

\* lines 277-290
FailLog(p) ==
    /\ run[p].pc = "failLog"
    /\ syncRunLog' = [syncRunLog EXCEPT ![run[p].runLogId] = FinishedLog(run[p], "failure")]
    /\ run' = [run EXCEPT ![p].pc = "done", ![p].outcome = "failure"]
    /\ prev' = Finished(p, "failure")
    /\ UNCHANGED <<api, source, clock, shopConfig, syncState, shopifyOrderRaw, orderIncomeV1,
                   hist, budget>>

----------------------------------------------------------------------------
(* Specifications *)

\* the worker's default: concurrency 1, one run at a time
Next ==
    \/ Bootstrap
    \/ SourceChange
    \/ Tick
    \/ Start(1)
    \/ ReadState(1)
    \/ MarkStarted(1)
    \/ InsertRunLog(1)
    \/ FetchPage(1)
    \/ FetchFail(1)
    \/ SkipRecord(1)
    \/ UpsertRaw(1)
    \/ DeriveFail(1)
    \/ UpsertIncome(1)
    \/ SaveState(1)
    \/ SaveLog(1)
    \/ FailState(1)
    \/ FailLog(1)

Spec == Init /\ [][Next]_vars

\* SHOPIFY_SYNC_CONCURRENCY above 1: two worker slots, each taking one job
ConcStart(p) == run[p].pc = "idle" /\ Start(p)

NextConc ==
    \/ Bootstrap
    \/ SourceChange
    \/ \E p \in Procs :
          \/ ConcStart(p)
          \/ ReadState(p)
          \/ MarkStarted(p)
          \/ InsertRunLog(p)
          \/ FetchPage(p)
          \/ FetchFail(p)
          \/ SkipRecord(p)
          \/ UpsertRaw(p)
          \/ DeriveFail(p)
          \/ UpsertIncome(p)
          \/ SaveState(p)
          \/ SaveLog(p)
          \/ FailState(p)
          \/ FailLog(p)

SpecConc == Init /\ [][NextConc]_vars

\* what the platform holds under an order id while the course of a run is followed:
\* nothing, a paid order, an order without subtotal, or an order without processedAt
LiveValues(id) ==
    {<<>>, <<Node(id, EdgeTime, "paid")>>, <<Node(id, EdgeTime, "nosub")>>,
     <<Node(id, NoTime, "paid")>>}

\* the platform holds some of these orders when the first run starts, and keeps them
InitLive ==
    /\ source \in [OrderIds -> UNION {LiveValues(id) : id \in OrderIds}]
    /\ \A id \in OrderIds : source[id] \in LiveValues(id)
    /\ clock = StartOfTime
    /\ shopConfig = FALSE
    /\ syncState = NoSyncState
    /\ shopifyOrderRaw = EmptyTable
    /\ orderIncomeV1 = EmptyTable
    /\ syncRunLog = <<>>
    /\ run = [p \in Procs |-> IdleRun]
    /\ hist = [p \in Procs |-> NoHist]
    /\ prev = NoPrev
    /\ budget = [runs |-> MaxRuns, changes |-> MaxSourceChanges]
    /\ api = NoRequest

\* one await of the job in the worker's slot: the process is not terminated, so every
\* await of a started run returns and the function goes on
RunStep ==
    \/ ReadState(1)
    \/ MarkStarted(1)
    \/ InsertRunLog(1)
    \/ FetchPage(1)
    \/ FetchFail(1)
    \/ SkipRecord(1)
    \/ UpsertRaw(1)
    \/ DeriveFail(1)
    \/ UpsertIncome(1)
    \/ SaveState(1)
    \/ SaveLog(1)
    \/ FailState(1)
    \/ FailLog(1)

\* the worker process is terminated while the run is between two awaits; nothing more
\* of the run is executed
Terminate(p) ==
    /\ Active(p)
    /\ run' = [run EXCEPT ![p].pc = "done", ![p].outcome = "terminated"]
    /\ prev' = NoPrev
    /\ UNCHANGED <<api, source, clock, shopConfig, syncState, shopifyOrderRaw, orderIncomeV1,
                   syncRunLog, hist, budget>>

NextLive ==
    \/ Bootstrap
    \/ Start(1)
    \/ RunStep
    \/ Terminate(1)

SpecLive == InitLive /\ [][NextLive]_vars /\ WF_vars(RunStep)

----------------------------------------------------------------------------
(* A whole run as one step, for comparing executions: src/unnamed/part_001 *)

\* lines 140-235: the per-record loop over the nodes s, from acc = [raw, inc, max, err]
RECURSIVE ApplyRecords(_, _, _)
ApplyRecords(s, acc, at) ==
    IF s = <<>> \/ acc.err # "" THEN acc
    ELSE IF s[1].processedAt = NoTime THEN ApplyRecords(Tail(s), acc, at)
    ELSE LET n == s[1]
             seen == [acc EXCEPT
                        !.raw = [@ EXCEPT ![n.id] =
                                   <<[processedAt |-> n.processedAt, payload |-> n]>>],
                        !.max = IF @ = NoTime \/ n.processedAt > @ THEN n.processedAt ELSE @]
         IN  IF deriveError(n) # "" THEN [seen EXCEPT !.err = deriveError(n)]
             ELSE ApplyRecords(Tail(s),
                               [seen EXCEPT !.inc = [@ EXCEPT ![n.id] = <<IncomeRow(n, at)>>]],
                               at)

\* lines 116-275 with every request answered: the rows and the watermark a run over the
\* window from `lower` leaves when it starts from st = [raw, inc, wm]
WholeRun(st, lower, at) ==
    LET ids == IdSeq(InWindow(lower))
        acc == ApplyRecords([i \in 1..Len(ids) |-> source[ids[i]][1]],
                            [raw |-> st.raw, inc |-> st.inc, max |-> NoTime, err |-> ""], at)
    IN  [raw |-> acc.raw, inc |-> acc.inc,
         wm |-> IF acc.err = "" THEN acc.max ELSE st.wm]

----------------------------------------------------------------------------
(* Claims about the sync processor, one run at a time (Spec) *)

Finishing(p) == run[p].pc \in {"failState", "failLog"} \/ run[p].outcome \in {"failure", "threw"}

\* C1: a run that finishes with status success leaves the watermark greater than or
\* equal to the value it had before the run started (no watermark counts as the least)
C1_WatermarkNeverDecreases ==
    \A p \in Procs :
        run[p].outcome = "success" => syncState.watermarkProcessedAt >= hist[p].watermark

\* the rows of order_income_v1 without their computed_at column
WithoutComputedAt(table) ==
    [id \in OrderIds |->
        IF table[id] = <<>> THEN <<>> ELSE <<[table[id][1] EXCEPT !.computedAt = NoTime]>>]

\* the run in slot p is the second of two successful runs in succession that went through
\* the same source records, the source unchanged since the first one started
SecondOfTwo(p) ==
    /\ run[p].outcome = "success"
    /\ hist[p].before.valid
    /\ hist[p].before.outcome = "success"
    /\ hist[p].before.clean
    /\ ~hist[p].srcChanged
    /\ hist[p].before.reached = hist[p].reached

\* C2, as the spec states it: the second of two such runs leaves every raw-payload row and
\* every order-income row as the first run left it, every stored value included
C2_RerunLeavesRowsIdentical ==
    \A p \in Procs :
        SecondOfTwo(p) => /\ shopifyOrderRaw = hist[p].raw
                          /\ orderIncomeV1 = hist[p].inc

\* C2, amended: the second run leaves the same rows with the same stored values, except
\* computed_at, which every upsert of an order-income row sets anew
C2_RerunLeavesRowsIdenticalButComputedAt ==
    \A p \in Procs :
        SecondOfTwo(p) => /\ shopifyOrderRaw = hist[p].raw
                          /\ WithoutComputedAt(orderIncomeV1) = WithoutComputedAt(hist[p].inc)

\* a second run that rewrote a row a day after the first run wrote it
C2_Witness ==
    \E p \in Procs :
        /\ SecondOfTwo(p)
        /\ \E id \in OrderIds :
              /\ hist[p].inc[id] # <<>>
              /\ orderIncomeV1[id] # hist[p].inc[id]

C4_EmptyRunKeepsWatermark ==
    \A p \in Procs :
        (run[p].outcome = "success" /\ run[p].ordersFetched = 0)
            => syncState.watermarkProcessedAt = hist[p].watermark

\* C5: no run finishes with status success after it fetched a record that fails
\* normalization (a record without processedAt or without subtotal included)
C5_BadRecordFailsRun ==
    \A p \in Procs :
        run[p].outcome = "success" => \A n \in hist[p].reached : mapOrderError(n) = ""

\* C6: a run that ends with status failure leaves every raw-payload row and every
\* order-income row that existed before it with the values it had
C6_FailedRunLeavesRowsUntouched ==
    \A p \in Procs :
        run[p].outcome = "failure" =>
            \A id \in OrderIds :
                /\ hist[p].raw[id] # <<>> => shopifyOrderRaw[id] = hist[p].raw[id]
                /\ hist[p].inc[id] # <<>> => orderIncomeV1[id] = hist[p].inc[id]

NodeCurrency(n) ==
    IF n.currentSubtotalPriceSet = <<>> THEN ShopCurrency
    ELSE n.currentSubtotalPriceSet[1].currencyCode

\* C8: a run that meets an order in another currency than the shop's does not finish
\* with status success, and no order-income row is written from such an order
C8_ForeignCurrencyAbortsRun ==
    \A p \in Procs :
        /\ run[p].outcome = "success"
              => \A n \in hist[p].reached : NodeCurrency(n) = ShopCurrency
        /\ \A n \in hist[p].reached :
              NodeCurrency(n) # ShopCurrency
                  => orderIncomeV1[n.id] = hist[p].inc[n.id]

\* C9: every record the per-record loop has reached has its raw payload upserted under
\* its order id
C9_RawUpsertedForEveryRecord ==
    \A p \in Procs :
        \A n \in hist[p].reached : shopifyOrderRaw[n.id] = <<RawRow(n)>>

----------------------------------------------------------------------------
(* Claims about two runs on two worker slots (SpecConc) *)

StoreNow ==
    [raw |-> shopifyOrderRaw, inc |-> orderIncomeV1, wm |-> syncState.watermarkProcessedAt]

\* both slots ran to the end, every request answered, the source the same all along
BothRan(a, b) ==
    /\ a # b
    /\ hist[a].first
    /\ run[a].outcome \in {"success", "failure"}
    /\ run[b].outcome \in {"success", "failure"}
    /\ run[a].err # "Shopify GraphQL error"
    /\ run[b].err # "Shopify GraphQL error"
    /\ ~hist[a].srcChanged
    /\ ~hist[b].srcChanged
    /\ hist[b].before.valid => hist[b].before.clean
    /\ prev.clean

\* the store before the first of the two runs
StoreBefore(a) == [raw |-> hist[a].raw, inc |-> hist[a].inc, wm |-> hist[a].watermark]

\* run x, then run y, each computing its window when it starts
OneAfterTheOther(a, x, y) ==
    LET mid == WholeRun(StoreBefore(a), WindowOf(hist[a].watermark, run[x].now), run[x].now)
    IN  WholeRun(mid, WindowOf(mid.wm, run[y].now), run[y].now)

\* run x, then run y, each over the window it fetched in the execution at hand
OneAfterTheOtherSameWindows(a, x, y) ==
    WholeRun(WholeRun(StoreBefore(a), run[x].effectiveWatermark, run[x].now),
             run[y].effectiveWatermark, run[y].now)

\* C10, as the spec states it: two runs that overlapped leave the rows and the watermark
\* that the two runs leave when executed one after the other
C10_OverlappingRunsEqualSerial ==
    \A a, b \in Procs :
        (BothRan(a, b) /\ hist[b].overlap) =>
            StoreNow \in {OneAfterTheOther(a, a, b), OneAfterTheOther(a, b, a)}

\* C10, over fixed windows: two runs, overlapping or not, leave the rows and the watermark that the
\* two leave when executed one after the other over the windows they fetched
C10_RunsEqualSerialOverTheirWindows ==
    \A a, b \in Procs :
        BothRan(a, b) =>
            StoreNow \in {OneAfterTheOtherSameWindows(a, a, b),
                          OneAfterTheOtherSameWindows(a, b, a)}

\* two overlapping successful runs that both wrote rows
C10_Witness ==
    \E a, b \in Procs :
        /\ BothRan(a, b)
        /\ hist[b].overlap
        /\ run[a].outcome = "success" /\ run[b].outcome = "success"
        /\ run[a].ordersUpserted > 0 /\ run[b].ordersUpserted > 0

----------------------------------------------------------------------------
(* Claims about the course of a run that is not terminated (SpecLive) *)

\* the run in the worker's slot has its run-log row, in status running
RowRunning ==
    /\ run[1].runLogId \in DOMAIN syncRunLog
    /\ syncRunLog[run[1].runLogId].status = "running"

\* the run in the worker's slot has ended, with its outcome in its row and in sync state
RowFinished ==
    /\ run[1].runLogId \in DOMAIN syncRunLog
    /\ run[1].outcome \in {"success", "failure"}
    /\ syncRunLog[run[1].runLogId].status = run[1].outcome
    /\ syncState.lastSyncStatus = run[1].outcome

----------------------------------------------------------------------------
(* Claims about the fetch window and the run records *)

\* the run in slot p has computed its fetch window
HasWindow(p) == run[p].pc \notin {"idle", "readState"} /\ run[p].outcome # "threw"

\* C12: the lower bound of the fetch window is the later of watermark - overlapDays and
\* now - initialBackfillDays when a watermark exists, and now - initialBackfillDays when
\* none does
C12_WindowIsMaxOfOverlapAndBackfill ==
    \A p \in Procs :
        HasWindow(p) =>
            LET started == IF run[p].pc \in {"saveLog", "failLog", "done"}
                           THEN syncState.lastSyncStartedAt ELSE run[p].now
                backfill == started - INITIAL_BACKFILL_DAYS
                overlap == hist[p].watermark - OVERLAP_DAYS
            IN  run[p].effectiveWatermark =
                    IF hist[p].watermark = NoTime THEN backfill
                    ELSE IF overlap > backfill THEN overlap ELSE backfill

\* C13: from the moment a run has marked its start until it records success or failure,
\* sync state and the run's run-log row read "running", and they stay so when the process
\* is terminated in between
C13_SyncStateReadsRunning ==
    \A p \in Procs :
        (/\ run[p].runLogId \in DOMAIN syncRunLog
         /\ \/ run[p].pc \in {"fetch", "node", "derive", "saveState", "failState"}
            \/ run[p].outcome = "terminated")
            => /\ syncState.lastSyncStatus = "running"
               /\ syncRunLog[run[p].runLogId].status = "running"

\* the rows of sync_run_log that existed when the invocation in slot p started are as
\* they were
EarlierRowsKept(p) ==
    /\ Len(syncRunLog) >= Len(hist[p].log)
    /\ SubSeq(syncRunLog, 1, Len(hist[p].log)) = hist[p].log

ComputedFields(n) ==
    LET normalized == mapOrderToNormalized(n)
        components == computeIncomeComponents(normalized.order, normalized.refunds)
        exclusion == shouldExcludeOrderV1(normalized.order, normalized.refunds)
    IN  [lineItemsSubtotal |-> components.line_items_subtotal.amount,
         shippingAmount |-> components.shipping_amount.amount,
         taxAmount |-> components.tax_amount.amount,
         discountAmount |-> components.discount_amount.amount,
         incomeBruto |-> components.income_bruto.amount,
         refunds |-> components.refunds.amount,
         incomeNeto |-> components.income_neto.amount,
         excluded |-> exclusion.exclude,
         excludedReason |-> exclusion.reason]

\* the computed fields of a stored order-income row
StoredFields(row) ==
    [f \in {"lineItemsSubtotal", "shippingAmount", "taxAmount", "discountAmount",
            "incomeBruto", "refunds", "incomeNeto", "excluded", "excludedReason"} |->
        row[f]]

\* the run in slot p is done with the record n, which it accepted
Accepted(p, n) ==
    /\ n \in hist[p].reached
    /\ n.processedAt # NoTime
    /\ deriveError(n) = ""
    /\ ~(run[p].pc = "derive" /\ run[p].nodes[1] = n)

----------------------------------------------------------------------------
(* The shop's local calendar, as luxon and PostgreSQL compute it.  On the query side an
   instant is a whole number of hours since local midnight of day 0, and the requests
   range over days 0..LastDay *)

LastDay == 2

\* the default zone of the income routes has no clock change in the days modelled; one
\* zone sets its clocks back an hour on day 1 (01:00 comes twice), one sets them forward
\* (02:00 does not exist)
TIMEZONE == "America/Mexico_City"
Zones == {TIMEZONE, "clocksGoBack", "clocksGoForward"}

\* hours in local day d
DayLen(tz, d) ==
    IF d # 1 THEN 24
    ELSE IF tz = "clocksGoBack" THEN 25
    ELSE IF tz = "clocksGoForward" THEN 23
    ELSE 24

\* DateTime.startOf("day") of local day d, as an instant; the days before day 0 (the
\* previous period of a comparison may reach them) have negative instants
RECURSIVE DayStart(_, _)
DayStart(tz, d) ==
    IF d = 0 THEN 0
    ELSE IF d > 0 THEN DayStart(tz, d - 1) + DayLen(tz, d - 1)
    ELSE DayStart(tz, d + 1) - DayLen(tz, d)

\* DateTime.endOf("day") of local day d falls in this hour
DayEnd(tz, d) == DayStart(tz, d + 1) - 1

Instants(tz) == 0..DayEnd(tz, LastDay)

\* the earliest day a previous period can start on
FirstDay == 0 - (LastDay + 1)

\* setZone(tz).toISODate(), (x AT TIME ZONE tz)::date: the local day of instant u
LocalDay(tz, u) ==
    IF u >= 0
    THEN CHOOSE d \in 0..LastDay : DayStart(tz, d) <= u /\ u <= DayEnd(tz, d)
    ELSE CHOOSE d \in FirstDay..(0 - 1) : DayStart(tz, d) <= u /\ u <= DayEnd(tz, d)

\* the hour the local clock shows at instant u
WallHour(tz, u) ==
    LET d == LocalDay(tz, u)
        k == u - DayStart(tz, d)
    IN  IF DayLen(tz, d) = 25 /\ k >= 2 THEN k - 1
        ELSE IF DayLen(tz, d) = 23 /\ k >= 2 THEN k + 1
        ELSE k

\* toFormat("yyyy-LL-dd'T'HH:00:00") and date_trunc('hour', x AT TIME ZONE tz): the
\* naive local hour of instant u. Keys order as the strings do, and the next naive hour
\* is the next number
HourKey(tz, u) == 24 * LocalDay(tz, u) + WallHour(tz, u)

\* parseLocalDateRangeToUtc: "" and the bounds where it returns, the message it throws
parseLocalDateRangeToUtc(from, to, tz) ==
    IF DayStart(tz, from) > DayEnd(tz, to)
    THEN [error |-> "from must be <= to", startUtc |-> 0, endUtc |-> 0]
    ELSE [error |-> "", startUtc |-> DayStart(tz, from), endUtc |-> DayEnd(tz, to)]

----------------------------------------------------------------------------
(* Comparison with the previous period: the module "../comparison", whose text is in
   src/src/services/__tests__/hourlyBuckets.test.ts lines 76-147 *)

\* n / d rounded to an integer, halves to the even neighbour (Decimal.ROUND_HALF_EVEN)
RoundHalfEven(n, d) ==
    LET num == IF d < 0 THEN 0 - n ELSE n
        den == IF d < 0 THEN 0 - d ELSE d
        q == num \div den
        r == num - q * den
    IN  IF 2 * r < den THEN q
        ELSE IF 2 * r > den THEN q + 1
        ELSE IF q % 2 = 0 THEN q ELSE q + 1

\* a delta that reports no change whenever the previous value is zero
computeDeltaPercentFlatOverZero(current, previous) ==
    IF previous = 0 THEN [percentChange |-> <<0>>, direction |-> "flat"]
    ELSE LET percent == RoundHalfEven((current - previous) * 10000, previous)
         IN  [percentChange |-> <<percent>>,
              direction |-> IF percent > 0 THEN "up"
                            ELSE IF percent < 0 THEN "down" ELSE "flat"]

\* computeDeltaPercent; percentChange is <<>> for null and otherwise <<the percentage in
\* hundredths of a percent>>, which is what toDecimalPlaces(2) keeps
computeDeltaPercent(current, previous) ==
    IF previous = 0
    THEN IF current = 0 THEN [percentChange |-> <<0>>, direction |-> "flat"]
         ELSE [percentChange |-> <<>>,
               direction |-> IF current > 0 THEN "up" ELSE "down"]
    ELSE LET percent == RoundHalfEven((current - previous) * 10000, previous)
         IN  [percentChange |-> <<percent>>,
              direction |-> IF percent > 0 THEN "up"
                            ELSE IF percent < 0 THEN "down" ELSE "flat"]

\* a previous period that ends on the first day of the current one
getPreviousPeriodEndingOnFrom(from, to, tz) ==
    IF to < from
    THEN [error |-> "Invalid local range order", from |-> 0, to |-> 0]
    ELSE LET spanDays == (to - from) + 1
             endPrev == from
             startPrev == endPrev - (spanDays - 1)
         IN  [error |-> "", from |-> startPrev, to |-> endPrev]

\* getPreviousPeriodLocalRange: the dates are taken as UTC midnights, where every day is
\* 24 hours, so the arithmetic is on whole days; the zone is not used
getPreviousPeriodLocalRange(from, to, tz) ==
    IF to < from
    THEN [error |-> "Invalid local range order", from |-> 0, to |-> 0]
    ELSE LET spanDays == (to - from) + 1
             endPrev == from - 1
             startPrev == endPrev - (spanDays - 1)
         IN  [error |-> "", from |-> startPrev, to |-> endPrev]

----------------------------------------------------------------------------
(* The store the query API reads: the rows earlier syncs wrote *)

\* one element of Order.refunds
Refund(id, at, total, lines) ==
    [id |-> id, createdAt |-> at, totalRefundedSet |-> Money(total, ShopCurrency),
     refundLineItems |-> lines]

\* the orders the platform may hold under an id when the queries are made: paid in
\* the second hour of day 1 (the repeated 01:00 where the clocks go back, 03:00 where
\* they go forward); a test order; cancelled, and refunded in full an hour later;
\* refunded in part two days later, the amount given by the refund's line items
QueryNodes(id) ==
    {Node(id, 26, "paid"),
     [Node(id, 5, "paid") EXCEPT !.test = TRUE],
     [Node(id, 25, "cancelled") EXCEPT !.refunds = <<Refund(id, 26, 12, <<>>)>>],
     [Node(id, 5, "paid") EXCEPT
         !.refunds = <<Refund(id, 50, 0, <<<<Money(5, ShopCurrency)>>>>)>>]}

QueryValues(id) == {<<>>} \cup {<<n>> : n \in QueryNodes(id)}

\* the tables after a sync that covered every order of src and finished at `at`
SyncedRaw(src) ==
    [id \in OrderIds |-> IF src[id] = <<>> THEN <<>> ELSE <<RawRow(src[id][1])>>]

SyncedIncome(src, at) ==
    [id \in OrderIds |-> IF src[id] = <<>> THEN <<>> ELSE <<IncomeRow(src[id][1], at)>>]

SyncedState(src, at) ==
    LET times == {src[id][1].processedAt : id \in {i \in OrderIds : src[i] # <<>>}}
    IN  [exists |-> TRUE,
         watermarkProcessedAt |-> IF times = {} THEN NoTime ELSE SetMax(times),
         lastSyncStartedAt |-> at, lastSyncFinishedAt |-> at,
         lastSyncStatus |-> "success", lastSyncError |-> ""]

SyncedLog(src, at) ==
    LET rows == {id \in OrderIds : src[id] # <<>>}
        out == {id \in rows : IncomeRow(src[id][1], at).excluded}
    IN  <<[startedAt |-> at, finishedAt |-> at, status |-> "success",
           ordersFetched |-> Cardinality(rows),
           ordersUpserted |-> Cardinality(rows \ out),
           ordersExcluded |-> Cardinality(out),
           lastCursor |-> IF rows = {} THEN NoCursor ELSE SetMax(rows), error |-> ""]>>

\* either the store was never bootstrapped and is empty, or it was bootstrapped with
\* some SHOP_TIMEZONE_IANA and one sync (at hour 51) has brought in the platform's
\* orders.  api.timezone stands for shop_config.timezone_iana, which only bootstrap
\* writes
InitQuery ==
    /\ source \in [OrderIds -> UNION {QueryValues(id) : id \in OrderIds}]
    /\ \A id \in OrderIds : source[id] \in QueryValues(id)
    /\ clock = 51
    /\ shopConfig \in BOOLEAN
    /\ \E tz \in Zones : api = [op |-> "none", status |-> 0, timezone |-> tz]
    /\ syncState = IF shopConfig THEN SyncedState(source, clock) ELSE NoSyncState
    /\ shopifyOrderRaw = IF shopConfig THEN SyncedRaw(source) ELSE EmptyTable
    /\ orderIncomeV1 = IF shopConfig THEN SyncedIncome(source, clock) ELSE EmptyTable
    /\ syncRunLog = IF shopConfig THEN SyncedLog(source, clock) ELSE <<>>
    /\ run = [p \in Procs |-> IdleRun]
    /\ hist = [p \in Procs |-> NoHist]
    /\ prev = NoPrev
    /\ budget = [runs |-> 1, changes |-> 0]

----------------------------------------------------------------------------
(* GET /internal/income/daily-v2: src/src/api/routes/internal.ts *)

allowedDays == {1, 2, 3, 7, 14, 30, 90, 365}

RECURSIVE SumOver(_)
SumOver(f) ==
    IF DOMAIN f = {} THEN 0
    ELSE LET x == CHOOSE y \in DOMAIN f : TRUE
         IN  f[x] + SumOver([y \in DOMAIN f \ {x} |-> f[y]])

\* Math.ceil(endLocal.diff(startLocal, "days").days): start is a local midnight, the
\* whole days are calendar days and what is left of the last one is a fraction of it;
\* onTheHour says that the end is the very start of its hour
DiffDaysCeil(tz, startUtc, endUtc, onTheHour) ==
    LET whole == LocalDay(tz, endUtc) - LocalDay(tz, startUtc)
        rest == endUtc > DayStart(tz, LocalDay(tz, endUtc)) \/ ~onTheHour
    IN  whole + (IF rest THEN 1 ELSE 0)

\* lines 720-725
Granularity(q, tz, startUtc, endUtc, onTheHour) ==
    LET rangeDays == DiffDaysCeil(tz, startUtc, endUtc, onTheHour) + 1
        useHour == rangeDays <= 2
    IN  IF q.granularity # "" THEN q.granularity
        ELSE IF useHour THEN "hour" ELSE "day"

\* the local bucket of an instant: date_trunc('hour', x AT TIME ZONE tz) or
\* (x AT TIME ZONE tz)::date
BucketOf(tz, granularity, u) ==
    IF granularity = "hour" THEN HourKey(tz, u) ELSE LocalDay(tz, u)

\* a predicate that lets every row through, whatever the caller asked
exclusionPredicateAlwaysTrue(includeExcluded, id) == TRUE

\* lines 746-748
exclusionPredicate(includeExcluded, id) ==
    includeExcluded \/ orderIncomeV1[id][1].excluded = FALSE

\* lines 749-766
refundAmountExpr(refund_obj) ==
    IF refund_obj.totalRefundedSet.amount > 0 THEN refund_obj.totalRefundedSet.amount
    ELSE SumOver([i \in 1..Len(refund_obj.refundLineItems) |->
                    IF refund_obj.refundLineItems[i] = <<>> THEN 0
                    ELSE refund_obj.refundLineItems[i][1].amount])

\* the rows of the CTE agg that fall in one bucket
AggRows(tz, granularity, key, sUtc, eUtc, includeExcluded) ==
    {id \in OrderIds :
        /\ orderIncomeV1[id] # <<>>
        /\ exclusionPredicate(includeExcluded, id)
        /\ orderIncomeV1[id][1].processedAt >= sUtc
        /\ orderIncomeV1[id][1].processedAt <= eUtc
        /\ BucketOf(tz, granularity, orderIncomeV1[id][1].processedAt) = key}

\* the rows of the CTE refund_rows that fall in one bucket, as <<order, refund>>
RefundRows(tz, granularity, key, sUtc, eUtc, includeExcluded) ==
    {r \in UNION {{<<id, i>> : i \in 1..Len(shopifyOrderRaw[id][1].payload.refunds)} :
                     id \in {j \in OrderIds : shopifyOrderRaw[j] # <<>>
                                               /\ orderIncomeV1[j] # <<>>}} :
        LET at == shopifyOrderRaw[r[1]][1].payload.refunds[r[2]].createdAt
        IN  /\ exclusionPredicate(includeExcluded, r[1])
            /\ at >= sUtc
            /\ at <= eUtc
            /\ BucketOf(tz, granularity, at) = key}

\* one row of the final SELECT, mapped to a point; amounts are the raw sums
BucketPoint(tz, granularity, key, sUtc, eUtc, includeExcluded) ==
    LET rows == AggRows(tz, granularity, key, sUtc, eUtc, includeExcluded)
        back == RefundRows(tz, granularity, key, sUtc, eUtc, includeExcluded)
    IN  [date |-> key,
         ordersCount |-> Cardinality(rows),
         orderRevenue |-> SumOver([id \in rows |-> orderIncomeV1[id][1].incomeNeto]),
         incomeBruto |-> SumOver([id \in rows |-> orderIncomeV1[id][1].incomeBruto]),
         refunds |-> SumOver([r \in back |->
                        refundAmountExpr(shopifyOrderRaw[r[1]][1].payload.refunds[r[2]])]),
         incomeNeto |-> SumOver([id \in rows |-> orderIncomeV1[id][1].incomeNeto]),
         shippingAmount |-> SumOver([id \in rows |-> orderIncomeV1[id][1].shippingAmount]),
         taxAmount |-> SumOver([id \in rows |-> orderIncomeV1[id][1].taxAmount]),
         discountAmount |-> SumOver([id \in rows |-> orderIncomeV1[id][1].discountAmount])]

\* makeZeroPoint, lines 861-871
makeZeroPoint(bucketKey) ==
    [date |-> bucketKey, ordersCount |-> 0, orderRevenue |-> 0, incomeBruto |-> 0,
     refunds |-> 0, incomeNeto |-> 0, shippingAmount |-> 0, taxAmount |-> 0,
     discountAmount |-> 0]

\* src/src/services/dateRange.ts: the cursor goes from the start hour to the end hour in
\* steps of one hour of time, and each step looks its local key up in the points
ensureContinuousHourlyBuckets(points, startUtc, endUtc, tz) ==
    [i \in 1..(endUtc - startUtc + 1) |->
        LET bucketKey == HourKey(tz, startUtc + i - 1)
        IN  IF bucketKey \in DOMAIN points THEN points[bucketKey]
            ELSE makeZeroPoint(bucketKey)]

\* lines 727-961: generate_series gives every naive hour, or every date, between the
\* ends; the hourly points are keyed by their date and go through
\* ensureContinuousHourlyBuckets
runDailyAgg(tz, granularity, sUtc, eUtc, fromLocal, toLocal, includeExcluded) ==
    IF granularity = "hour"
    THEN ensureContinuousHourlyBuckets(
             [key \in HourKey(tz, sUtc)..HourKey(tz, eUtc) |->
                 BucketPoint(tz, "hour", key, sUtc, eUtc, includeExcluded)],
             sUtc, eUtc, tz)
    ELSE [i \in 1..(toLocal - fromLocal + 1) |->
             BucketPoint(tz, "day", fromLocal + i - 1, sUtc, eUtc, includeExcluded)]

\* a request's query string after its schema: days, or from and to, or neither; a
\* granularity or ""; includeExcluded; compare, which these requests leave out
RangeQueries ==
    {[mode |-> "days", days |-> n, from |-> 0, to |-> 0] : n \in 1..(LastDay + 2)}
        \cup {[mode |-> "range", days |-> 0, from |-> f, to |-> t] :
                 f \in 0..LastDay, t \in 0..LastDay}
        \cup {[mode |-> "none", days |-> 0, from |-> 0, to |-> 0]}

Queries(granularities) ==
    {[mode |-> r.mode, days |-> r.days, from |-> r.from, to |-> r.to,
      granularity |-> g, includeExcluded |-> x, compare |-> FALSE] :
        r \in RangeQueries, g \in granularities, x \in BOOLEAN}

\* the instants at which a request is made: at midnight and early afternoon of each day
NowInstants(tz) == {DayStart(tz, d) + k : d \in 0..LastDay, k \in {0, 13}}

\* the calendar modelled starts at day 0, so a request for the last n days is made on
\* day n - 1 or later
InCalendar(q, tz, now) ==
    q.mode = "days" /\ q.days \in allowedDays => LocalDay(tz, now) >= q.days - 1

\* a response that carries an error; `configured` records whether shop_config was there
\* when the request was served
Refused(op, q, status, error) ==
    [op |-> op, status |-> status, timezone |-> api.timezone, configured |-> shopConfig,
     q |-> q, error |-> error]

\* lines 692-717 and 1066-1091: the bounds and the local dates of the requested range
ResolveRange(q, tz, now) ==
    IF q.mode = "days"
    THEN LET today == LocalDay(tz, now)
         IN  [error |-> "", startUtc |-> DayStart(tz, today - (q.days - 1)),
              endUtc |-> now, from |-> today - (q.days - 1), to |-> today]
    ELSE IF q.mode = "range"
    THEN LET range == parseLocalDateRangeToUtc(q.from, q.to, tz)
         IN  [error |-> range.error, startUtc |-> range.startUtc,
              endUtc |-> range.endUtc, from |-> q.from, to |-> q.to]
    ELSE [error |-> "Provide either days or both from and to", startUtc |-> 0,
          endUtc |-> 0, from |-> 0, to |-> 0]

\* lines 662-1003
dailyV2(q, now, onTheHour) ==
    LET tz == api.timezone
        r == ResolveRange(q, tz, now)
        granularity == Granularity(q, tz, r.startUtc, r.endUtc, onTheHour)
    IN  IF q.mode = "days" /\ q.days \notin allowedDays
        THEN Refused("daily-v2", q, 400, "Invalid query")
        ELSE IF ~shopConfig THEN Refused("daily-v2", q, 503, "shop_config not found")
        ELSE IF r.error # "" THEN Refused("daily-v2", q, 400, r.error)
        ELSE [op |-> "daily-v2", status |-> 200, timezone |-> tz, configured |-> shopConfig,
              q |-> q,
              error |-> "", range |-> [from |-> r.from, to |-> r.to, timezone |-> tz],
              startUtc |-> r.startUtc, endUtc |-> r.endUtc,
              granularity |-> granularity,
              data |-> runDailyAgg(tz, granularity, r.startUtc, r.endUtc, r.from, r.to,
                                   q.includeExcluded)]

DailyV2 ==
    /\ api.op = "none"
    /\ \E q \in Queries({"", "hour", "day"}) :
       \E now \in NowInstants(api.timezone) : \E onTheHour \in BOOLEAN :
            /\ InCalendar(q, api.timezone, now)
            /\ q.mode # "days" => now = 0 /\ ~onTheHour
            /\ api' = dailyV2(q, now, onTheHour)
    /\ UNCHANGED <<source, clock, shopConfig, syncState, shopifyOrderRaw, orderIncomeV1,
                   syncRunLog, run, hist, prev, budget>>

\* what may happen to the store while a request with compare is served: nothing, or a
\* statement fails (db.execute rejects) while the current range, or while the previous
\* period, is aggregated
StoreFaults == {"none", "current", "previous"}

\* the requests with compare=1
CompareQueries ==
    {[mode |-> r.mode, days |-> r.days, from |-> r.from, to |-> r.to,
      granularity |-> "", includeExcluded |-> FALSE, compare |-> TRUE] :
        r \in RangeQueries}

\* lines 662-1003 with q.compare, base being what the handler has for the current
\* range (the answer without compare): an exception of runDailyAgg for the current range
\* leaves the handler (fastify answers 500); the try block of lines 981-999 turns one of
\* the previous period into comparison = []
dailyV2Compare(base, q, fault) ==
    LET tz == api.timezone
        prevRange == getPreviousPeriodLocalRange(base.range.from, base.range.to, tz)
        rangePrev == parseLocalDateRangeToUtc(prevRange.from, prevRange.to, tz)
    IN  IF base.status # 200 THEN base @@ [fault |-> "none"]
        ELSE IF fault = "current"
        THEN Refused("daily-v2", q, 500, "Internal Server Error") @@ [fault |-> fault]
        ELSE base @@
             [fault |-> fault,
              comparisonRange |-> [from |-> prevRange.from, to |-> prevRange.to],
              comparison |->
                  IF fault = "previous" \/ rangePrev.error # "" THEN <<>>
                  ELSE runDailyAgg(tz, base.granularity, rangePrev.startUtc,
                                   rangePrev.endUtc, prevRange.from, prevRange.to,
                                   q.includeExcluded)]

DailyV2Compare ==
    /\ api.op = "none"
    /\ \E q \in CompareQueries : \E now \in NowInstants(api.timezone) :
       \E fault \in StoreFaults :
            /\ InCalendar(q, api.timezone, now)
            /\ q.mode # "days" => now = 0
            /\ \E base \in {dailyV2(q, now, FALSE)} :
                    api' = dailyV2Compare(base, q, fault)
    /\ UNCHANGED <<source, clock, shopConfig, syncState, shopifyOrderRaw, orderIncomeV1,
                   syncRunLog, run, hist, prev, budget>>

----------------------------------------------------------------------------
(* Income queries: src/unnamed/part_004, and the routes that call them *)

\* rangeCondition and whereIncluded of listOrders and getReconcile
InRange(startUtc, endUtc) ==
    {id \in OrderIds : /\ orderIncomeV1[id] # <<>>
                       /\ orderIncomeV1[id][1].processedAt >= startUtc
                       /\ orderIncomeV1[id][1].processedAt <= endUtc}

whereIncluded(startUtc, endUtc, includeExcluded) ==
    {id \in InRange(startUtc, endUtc) :
        includeExcluded \/ orderIncomeV1[id][1].excluded = FALSE}

\* ORDER BY processed_at DESC, shopify_order_id DESC
RECURSIVE NewestFirst(_)
NewestFirst(ids) ==
    IF ids = {} THEN <<>>
    ELSE LET top == CHOOSE a \in ids : \A b \in ids \ {a} :
                        \/ orderIncomeV1[a][1].processedAt > orderIncomeV1[b][1].processedAt
                        \/ /\ orderIncomeV1[a][1].processedAt = orderIncomeV1[b][1].processedAt
                           /\ a > b
         IN  <<top>> \o NewestFirst(ids \ {top})

\* the sums of the summary and totals selects over a set of rows
Totals(ids) ==
    [incomeBruto |-> SumOver([id \in ids |-> orderIncomeV1[id][1].incomeBruto]),
     refunds |-> SumOver([id \in ids |-> orderIncomeV1[id][1].refunds]),
     incomeNeto |-> SumOver([id \in ids |-> orderIncomeV1[id][1].incomeNeto]),
     shippingAmount |-> SumOver([id \in ids |-> orderIncomeV1[id][1].shippingAmount]),
     taxAmount |-> SumOver([id \in ids |-> orderIncomeV1[id][1].taxAmount]),
     discountAmount |-> SumOver([id \in ids |-> orderIncomeV1[id][1].discountAmount]),
     lineItemsSubtotal |-> SumOver([id \in ids |-> orderIncomeV1[id][1].lineItemsSubtotal])]

\* listOrders with the default sort and the first page of 50
listOrders(startUtc, endUtc, includeExcluded) ==
    LET ids == whereIncluded(startUtc, endUtc, includeExcluded)
        out == {id \in InRange(startUtc, endUtc) : orderIncomeV1[id][1].excluded = TRUE}
        s == Totals(ids)
    IN  [orders |-> [i \in 1..Cardinality(ids) |-> orderIncomeV1[NewestFirst(ids)[i]][1]],
         total |-> Cardinality(ids),
         ordersExcludedInRange |-> Cardinality(out),
         summary |-> [currencyCode |-> ShopCurrency,
                      incomeBruto |-> s.incomeBruto,
                      refunds |-> s.refunds,
                      incomeNeto |-> s.incomeNeto,
                      shippingAmount |-> s.shippingAmount,
                      taxAmount |-> s.taxAmount,
                      discountAmount |-> s.discountAmount,
                      ordersIncluded |-> Cardinality(ids),
                      ordersExcludedInRange |-> Cardinality(out)]]

getReconcile(startUtc, endUtc, includeExcluded) ==
    LET ids == whereIncluded(startUtc, endUtc, includeExcluded)
    IN  [totals |-> Totals(ids),
         counts |-> [ordersTotalInRange |-> Cardinality(InRange(startUtc, endUtc)),
                     ordersExcludedInRange |->
                         Cardinality({id \in InRange(startUtc, endUtc) :
                                         orderIncomeV1[id][1].excluded = TRUE}),
                     ordersIncludedInRange |-> Cardinality(ids)],
         qualitySignals |->
             [ordersWithNetoNegative |->
                  Cardinality({id \in ids : orderIncomeV1[id][1].incomeNeto < 0}),
              ordersWithRefundsGtBruto |->
                  Cardinality({id \in ids : orderIncomeV1[id][1].refunds
                                               > orderIncomeV1[id][1].incomeBruto}),
              topRefundedOrders |-> ids]]

\* getTimezone of the income routes: src/unnamed/part_008 lines 29-36
getTimezone == IF shopConfig THEN api.timezone ELSE TIMEZONE

\* GET /internal/income/orders: src/unnamed/part_008 lines 61-113
OrdersList ==
    /\ api.op = "none"
    /\ \E q \in {x \in Queries({""}) : x.mode = "range"} :
         LET tz == getTimezone
             range == parseLocalDateRangeToUtc(q.from, q.to, tz)
             result == listOrders(range.startUtc, range.endUtc, q.includeExcluded)
         IN  api' = IF range.error # "" THEN Refused("orders", q, 400, range.error)
                    ELSE [op |-> "orders", status |-> 200, timezone |-> api.timezone,
                          configured |-> shopConfig,
                          q |-> q, error |-> "",
                          range |-> [from |-> q.from, to |-> q.to, timezone |-> tz],
                          startUtc |-> range.startUtc, endUtc |-> range.endUtc,
                          total |-> result.total, summary |-> result.summary,
                          orders |-> result.orders]
    /\ UNCHANGED <<source, clock, shopConfig, syncState, shopifyOrderRaw, orderIncomeV1,
                   syncRunLog, run, hist, prev, budget>>

\* GET /internal/income/orders/:shopifyOrderId with raw=full: lines 116-157
OrderDetail ==
    /\ api.op = "none"
    /\ \E id \in OrderIds :
         LET tz == getTimezone
             q == [shopifyOrderId |-> id]
         IN  api' = IF orderIncomeV1[id] = <<>>
                    THEN Refused("order", q, 404, "Order not found")
                    ELSE [op |-> "order", status |-> 200, timezone |-> api.timezone,
                          configured |-> shopConfig,
                          q |-> q, error |-> "",
                          income |-> orderIncomeV1[id][1],
                          meta |-> [processedAtLocalDate |->
                                        LocalDay(tz, orderIncomeV1[id][1].processedAt),
                                    timezone |-> tz],
                          raw |-> IF shopifyOrderRaw[id] = <<>> THEN <<>>
                                  ELSE <<shopifyOrderRaw[id][1].payload>>]
    /\ UNCHANGED <<source, clock, shopConfig, syncState, shopifyOrderRaw, orderIncomeV1,
                   syncRunLog, run, hist, prev, budget>>

\* GET /internal/income/reconcile: lines 160-191
Reconcile ==
    /\ api.op = "none"
    /\ \E q \in {x \in Queries({""}) : x.mode = "range"} :
         LET tz == getTimezone
             range == parseLocalDateRangeToUtc(q.from, q.to, tz)
             result == getReconcile(range.startUtc, range.endUtc, q.includeExcluded)
         IN  api' = IF range.error # "" THEN Refused("reconcile", q, 400, range.error)
                    ELSE [op |-> "reconcile", status |-> 200, timezone |-> api.timezone,
                          configured |-> shopConfig,
                          q |-> q, error |-> "",
                          range |-> [from |-> q.from, to |-> q.to, timezone |-> tz],
                          startUtc |-> range.startUtc, endUtc |-> range.endUtc,
                          totals |-> result.totals, counts |-> result.counts,
                          qualitySignals |-> result.qualitySignals]
    /\ UNCHANGED <<source, clock, shopConfig, syncState, shopifyOrderRaw, orderIncomeV1,
                   syncRunLog, run, hist, prev, budget>>

----------------------------------------------------------------------------
(* The other series and the summary: src/src/api/routes/internal.ts *)

\* the local days of [startUtc, endUtc] that hold an included row, ascending
RECURSIVE Ascending(_)
Ascending(S) == IF S = {} THEN <<>> ELSE <<SetMin(S)>> \o Ascending(S \ {SetMin(S)})

\* GET /internal/income/daily, lines 553-628: included rows grouped by local day; a day
\* without rows has no element
daily(q, now) ==
    LET tz == api.timezone
        today == LocalDay(tz, now)
        startUtc == DayStart(tz, today - (q.days - 1))
        ids == whereIncluded(startUtc, now, FALSE)
        day(id) == LocalDay(tz, orderIncomeV1[id][1].processedAt)
        dates == Ascending({day(id) : id \in ids})
    IN  IF q.days \notin allowedDays
        THEN Refused("daily", q, 400, "days must be one of")
        ELSE IF ~shopConfig THEN Refused("daily", q, 503, "shop_config not found")
        ELSE [op |-> "daily", status |-> 200, timezone |-> tz, configured |-> shopConfig,
              q |-> q, error |-> "",
              startUtc |-> startUtc, endUtc |-> now,
              data |-> [i \in 1..Len(dates) |->
                         LET rows == {id \in ids : day(id) = dates[i]}
                             s == Totals(rows)
                         IN  [date |-> dates[i],
                              ordersCount |-> Cardinality(rows),
                              incomeBruto |-> s.incomeBruto,
                              refunds |-> s.refunds,
                              incomeNeto |-> s.incomeNeto,
                              shippingAmount |-> s.shippingAmount,
                              taxAmount |-> s.taxAmount,
                              discountAmount |-> s.discountAmount]]]

Daily ==
    /\ api.op = "none"
    /\ \E n \in 1..(LastDay + 2) : \E now \in NowInstants(api.timezone) :
         LET q == [mode |-> "days", days |-> n]
         IN  /\ InCalendar(q, api.timezone, now)
             /\ api' = daily(q, now)
    /\ UNCHANGED <<source, clock, shopConfig, syncState, shopifyOrderRaw, orderIncomeV1,
                   syncRunLog, run, hist, prev, budget>>

\* getRefundsByCreatedAt, lines 1102-1146: the refunds created in the range, of the
\* orders the exclusion predicate lets through
getRefundsByCreatedAt(sUtc, eUtc, includeExcluded) ==
    LET back == {r \in UNION {{<<id, i>> :
                                  i \in 1..Len(shopifyOrderRaw[id][1].payload.refunds)} :
                                 id \in {j \in OrderIds : shopifyOrderRaw[j] # <<>>
                                                           /\ orderIncomeV1[j] # <<>>}} :
                   LET at == shopifyOrderRaw[r[1]][1].payload.refunds[r[2]].createdAt
                   IN  /\ exclusionPredicate(includeExcluded, r[1])
                       /\ at >= sUtc
                       /\ at <= eUtc}
    IN  SumOver([r \in back |->
                   refundAmountExpr(shopifyOrderRaw[r[1]][1].payload.refunds[r[2]])])

\* new Decimal(incomeNeto).div(ordersIncluded).toFixed(6), amounts counted in their
\* sixth decimal: the quotient rounded half away from zero
aovNeto(incomeNeto, ordersIncluded) ==
    IF ordersIncluded = 0 THEN 0
    ELSE IF incomeNeto >= 0
    THEN (2 * incomeNeto + ordersIncluded) \div (2 * ordersIncluded)
    ELSE 0 - ((2 * (0 - incomeNeto) + ordersIncluded) \div (2 * ordersIncluded))

\* GET /internal/income/summary-v2, lines 1036-1277.  The summary listOrders returns has
\* no lineItemsSubtotal, and toMoneyValue makes 0 of what it cannot read
summaryV2(q, now) ==
    LET tz == api.timezone
        r == ResolveRange(q, tz, now)
        s == listOrders(r.startUtc, r.endUtc, q.includeExcluded).summary
    IN  IF q.mode = "days" /\ q.days \notin allowedDays
        THEN Refused("summary-v2", q, 400, "Invalid query")
        ELSE IF ~shopConfig THEN Refused("summary-v2", q, 503, "shop_config not found")
        ELSE IF r.error # "" THEN Refused("summary-v2", q, 400, r.error)
        ELSE [op |-> "summary-v2", status |-> 200, timezone |-> tz, configured |-> shopConfig,
              q |-> q,
              error |-> "", range |-> [from |-> r.from, to |-> r.to, timezone |-> tz],
              startUtc |-> r.startUtc, endUtc |-> r.endUtc,
              currencyCode |-> s.currencyCode,
              orderRevenue |-> 0,
              incomeBruto |-> s.incomeBruto,
              refunds |-> getRefundsByCreatedAt(r.startUtc, r.endUtc, q.includeExcluded),
              incomeNeto |-> s.incomeNeto,
              shippingAmount |-> s.shippingAmount,
              taxAmount |-> s.taxAmount,
              discountAmount |-> s.discountAmount,
              ordersIncluded |-> s.ordersIncluded,
              ordersExcludedInRange |-> s.ordersExcludedInRange,
              aovNeto |-> aovNeto(s.incomeNeto, s.ordersIncluded)]

SummaryV2 ==
    /\ api.op = "none"
    /\ \E q \in Queries({""}) : \E now \in NowInstants(api.timezone) :
         /\ InCalendar(q, api.timezone, now)
         /\ q.mode # "days" => now = 0
         /\ api' = summaryV2(q, now)
    /\ UNCHANGED <<source, clock, shopConfig, syncState, shopifyOrderRaw, orderIncomeV1,
                   syncRunLog, run, hist, prev, budget>>

\* the summary listOrders returns (src/unnamed/part_004 lines 73-83 and 158-168) has
\* no field lineItemsSubtotal, so computeDeltaPercent(s.lineItemsSubtotal, ...) is
\* new Decimal(undefined), which throws
summaryHasLineItemsSubtotal == FALSE

\* the fields of a summary that are compared
ComparedFields ==
    {"incomeBruto", "refunds", "incomeNeto", "shippingAmount", "taxAmount",
     "discountAmount", "ordersIncluded", "aovNeto"}

\* lines 1036-1277 with q.compare, base being what the handler has for the current
\* range (the answer without compare): an exception for the current range leaves the
\* handler; the try block of lines 1183-1263 turns any exception of the previous
\* period, and of the deltas, into comparison = null and deltas = null
summaryV2Compare(base, q, fault) ==
    LET tz == api.timezone
        prevRange == getPreviousPeriodLocalRange(base.range.from, base.range.to, tz)
        rangePrev == parseLocalDateRangeToUtc(prevRange.from, prevRange.to, tz)
        sp == listOrders(rangePrev.startUtc, rangePrev.endUtc, q.includeExcluded).summary
        previous ==
            [orderRevenue |-> 0,
             incomeBruto |-> sp.incomeBruto,
             refunds |-> getRefundsByCreatedAt(rangePrev.startUtc, rangePrev.endUtc,
                                               q.includeExcluded),
             incomeNeto |-> sp.incomeNeto,
             shippingAmount |-> sp.shippingAmount,
             taxAmount |-> sp.taxAmount,
             discountAmount |-> sp.discountAmount,
             ordersIncluded |-> sp.ordersIncluded,
             aovNeto |-> aovNeto(sp.incomeNeto, sp.ordersIncluded)]
        thrown == \/ fault = "previous"
                  \/ rangePrev.error # ""
                  \/ ~summaryHasLineItemsSubtotal
    IN  IF base.status # 200 THEN base @@ [fault |-> "none"]
        ELSE IF fault = "current"
        THEN Refused("summary-v2", q, 500, "Internal Server Error") @@ [fault |-> fault]
        ELSE base @@
             [fault |-> fault,
              comparisonRange |-> [from |-> prevRange.from, to |-> prevRange.to],
              comparison |-> IF thrown THEN <<>> ELSE <<previous>>,
              deltas |-> IF thrown THEN <<>>
                         ELSE <<[f \in ComparedFields |->
                                   computeDeltaPercent(base[f], previous[f])]>>]

SummaryV2Compare ==
    /\ api.op = "none"
    /\ \E q \in CompareQueries : \E now \in NowInstants(api.timezone) :
       \E fault \in StoreFaults :
            /\ InCalendar(q, api.timezone, now)
            /\ q.mode # "days" => now = 0
            /\ \E base \in {summaryV2(q, now)} :
                    api' = summaryV2Compare(base, q, fault)
    /\ UNCHANGED <<source, clock, shopConfig, syncState, shopifyOrderRaw, orderIncomeV1,
                   syncRunLog, run, hist, prev, budget>>

\* the sync job run on a store that was never bootstrapped (a sync of a bootstrapped
\* store is followed step by step in Spec)
SyncBeforeBootstrap == ~shopConfig /\ Start(1)

NextQuery ==
    \/ Bootstrap
    \/ SyncBeforeBootstrap
    \/ Daily
    \/ DailyV2
    \/ SummaryV2
    \/ OrdersList
    \/ OrderDetail
    \/ Reconcile

SpecQuery == InitQuery /\ [][NextQuery]_vars

\* the requests with compare=1, on their own
NextCompare ==
    \/ DailyV2Compare
    \/ SummaryV2Compare

SpecCompare == InitQuery /\ [][NextCompare]_vars

----------------------------------------------------------------------------
(* Claims about the query API (SpecQuery) *)

\* C16: while no bootstrap configuration is present the sync throws, and no query
\* operation (daily series, summary, order list, order, reconcile) answers with data:
\* every request is refused
C16_NothingRunsWithoutConfiguration ==
    /\ ~shopConfig /\ run[1].pc # "idle" => run[1].outcome = "threw"
    /\ api.op # "none" /\ ~api.configured => api.status # 200

\* the local hours of the days from..to, as keys
LocalHours(tz, from, to) == {HourKey(tz, u) : u \in DayStart(tz, from)..DayEnd(tz, to)}

\* the series has one bucket for each of the keys, in strictly ascending order
OneBucketEach(data, keys) ==
    /\ {data[i].date : i \in DOMAIN data} = keys
    /\ \A i \in DOMAIN data : \A j \in DOMAIN data : i < j => data[i].date < data[j].date

\* a bucket in which no order and no refund of the answered range falls is all zero
EmptyBucketsAreZero(r) ==
    \A i \in DOMAIN r.data :
        LET key == r.data[i].date
        IN  /\ AggRows(r.timezone, r.granularity, key, r.startUtc, r.endUtc, TRUE) = {}
            /\ RefundRows(r.timezone, r.granularity, key, r.startUtc, r.endUtc, TRUE) = {}
            => r.data[i] = makeZeroPoint(key)

\* C17: the series of daily-v2 has exactly one bucket per local hour, or per local day,
\* of the answered range [from, to], in strictly ascending key order, all zero where
\* nothing falls in the bucket; a single day in hours is 24 buckets, hours 0 to 23
C17_OneBucketPerLocalUnit ==
    api.op = "daily-v2" /\ api.status = 200 =>
        /\ IF api.granularity = "day"
           THEN OneBucketEach(api.data, api.range.from..api.range.to)
           ELSE OneBucketEach(api.data,
                              LocalHours(api.timezone, api.range.from, api.range.to))
        /\ EmptyBucketsAreZero(api)
        /\ api.granularity = "hour" /\ api.range.from = api.range.to =>
              /\ Len(api.data) = 24
              /\ api.data[1].date = 24 * api.range.from
              /\ api.data[24].date = 24 * api.range.from + 23

\* the orders with a stored row whose exclusion flag is not set
Kept == {id \in OrderIds : orderIncomeV1[id] # <<>> /\ orderIncomeV1[id][1].excluded = FALSE}

\* the sum of one column over a set of rows
Column(ids, col) == SumOver([id \in ids |-> orderIncomeV1[id][1][col]])

\* the amount of refund r = <<order, index>> as the mapper reads it from the payload
RefundOf(r) ==
    refundAmount(shopifyOrderRaw[r[1]][1].payload.refunds[r[2]], ShopCurrency).amount

\* the point of bucket `key` of answer r counts only rows of `ids` and their refunds
PointOver(r, point, key, ids) ==
    LET rows == AggRows(r.timezone, r.granularity, key, r.startUtc, r.endUtc, TRUE) \cap ids
        back == {x \in RefundRows(r.timezone, r.granularity, key, r.startUtc, r.endUtc,
                                   TRUE) : x[1] \in ids}
    IN  /\ point.ordersCount = Cardinality(rows)
        /\ point.incomeBruto = Column(rows, "incomeBruto")
        /\ point.incomeNeto = Column(rows, "incomeNeto")
        /\ point.orderRevenue = Column(rows, "incomeNeto")
        /\ point.shippingAmount = Column(rows, "shippingAmount")
        /\ point.taxAmount = Column(rows, "taxAmount")
        /\ point.discountAmount = Column(rows, "discountAmount")
        /\ point.refunds = SumOver([x \in back |-> RefundOf(x)])

\* the totals s of an answer over the range count only rows of `ids`
TotalsOver(r, s, ids) ==
    LET rows == InRange(r.startUtc, r.endUtc) \cap ids
    IN  /\ s.incomeBruto = Column(rows, "incomeBruto")
        /\ s.incomeNeto = Column(rows, "incomeNeto")
        /\ s.shippingAmount = Column(rows, "shippingAmount")
        /\ s.taxAmount = Column(rows, "taxAmount")
        /\ s.discountAmount = Column(rows, "discountAmount")

\* the request did not ask for excluded orders (the daily route has no such parameter)
WithoutExcluded(r) ==
    /\ r.status = 200
    /\ r.op \in {"daily", "daily-v2", "summary-v2", "orders", "reconcile"}
    /\ r.op # "daily" => ~r.q.includeExcluded

\* C18: unless the caller asks for excluded orders, an order whose stored exclusion flag
\* is set adds nothing to any bucket or summary: not to a count, not to an amount, not
\* to the refunds
C18_ExcludedOrdersContributeNothing ==
    WithoutExcluded(api) =>
        LET rows == InRange(api.startUtc, api.endUtc) \cap Kept
        IN  /\ api.op = "daily-v2" =>
                  \A i \in DOMAIN api.data :
                      PointOver(api, api.data[i], api.data[i].date, Kept)
            /\ api.op = "daily" =>
                  /\ \A i \in DOMAIN api.data :
                        LET day == {id \in rows :
                                       LocalDay(api.timezone,
                                                orderIncomeV1[id][1].processedAt)
                                           = api.data[i].date}
                        IN  /\ api.data[i].ordersCount = Cardinality(day)
                            /\ api.data[i].incomeBruto = Column(day, "incomeBruto")
                            /\ api.data[i].incomeNeto = Column(day, "incomeNeto")
                            /\ api.data[i].refunds = Column(day, "refunds")
                  /\ SumOver([i \in DOMAIN api.data |-> api.data[i].ordersCount])
                        = Cardinality(rows)
            /\ api.op = "summary-v2" =>
                  /\ TotalsOver(api, api, Kept)
                  /\ api.ordersIncluded = Cardinality(rows)
                  /\ api.refunds =
                        SumOver([x \in {y \in UNION {RefundRows(api.timezone, "day", d,
                                                                api.startUtc, api.endUtc,
                                                                TRUE) : d \in 0..LastDay} :
                                           y[1] \in Kept} |-> RefundOf(x)])
            /\ api.op = "orders" =>
                  /\ TotalsOver(api, api.summary, Kept)
                  /\ api.summary.refunds = Column(rows, "refunds")
                  /\ api.total = Cardinality(rows)
                  /\ api.summary.ordersIncluded = Cardinality(rows)
                  /\ {api.orders[i].shopifyOrderId : i \in DOMAIN api.orders} = rows
            /\ api.op = "reconcile" =>
                  /\ TotalsOver(api, api.totals, Kept)
                  /\ api.totals.refunds = Column(rows, "refunds")
                  /\ api.counts.ordersIncludedInRange = Cardinality(rows)
                  /\ api.qualitySignals.topRefundedOrders = rows

\* a series was answered, without excluded orders, over a range that holds an excluded
\* order and a refund of it
C18_Witness ==
    /\ api.op = "daily-v2"
    /\ WithoutExcluded(api)
    /\ \E id \in OrderIds :
          /\ orderIncomeV1[id] # <<>>
          /\ orderIncomeV1[id][1].excluded
          /\ id \in InRange(api.startUtc, api.endUtc)
          /\ \E i \in DOMAIN api.data :
                \E x \in RefundRows(api.timezone, api.granularity, api.data[i].date,
                                    api.startUtc, api.endUtc, TRUE) : x[1] = id

----------------------------------------------------------------------------
(* The exclusion decision on its own: src/src/metrics/computeIncomeComponents.ts *)

\* the normalized orders the decision is applied to: cancelled or not, test or not,
\* with or without subtotal and shipping
NormalizedOrders ==
    {[id |-> 1, processedAt |-> EdgeTime, currencyCode |-> ShopCurrency, isTest |-> t,
      cancelledAt |-> c, lineItemsSubtotal |-> Money(s, ShopCurrency),
      shippingAmount |-> Money(h, ShopCurrency), taxAmount |-> Money(x, ShopCurrency),
      discountAmount |-> Money(0, ShopCurrency)] :
        t \in BOOLEAN, c \in {NoTime, EdgeTime}, s \in {0, 10}, h \in {0, 2}, x \in {0, 1}}

\* their refunds: none, a part, the gross of the largest order, more than it, or two
\* refunds that add up to it
NormalizedRefunds ==
    LET refund(i, a) == [id |-> i, createdAt |-> EdgeTime, amount |-> Money(a, ShopCurrency)]
    IN  {<<>>, <<refund(1, 5)>>, <<refund(1, 10)>>, <<refund(1, 12)>>, <<refund(1, 20)>>,
         <<refund(1, 5), refund(2, 7)>>}

\* shouldExcludeOrderV1 is applied to one order and its refunds; api records the call
\* and what it returned
Decide ==
    /\ api.op = "none"
    /\ \E order \in NormalizedOrders : \E refunds \in NormalizedRefunds :
          api' = [op |-> "shouldExcludeOrderV1", status |-> 0, order |-> order,
                  refunds |-> refunds, result |-> shouldExcludeOrderV1(order, refunds)]
    /\ UNCHANGED <<source, clock, shopConfig, syncState, shopifyOrderRaw, orderIncomeV1,
                   syncRunLog, run, hist, prev, budget>>

NextExclude == Decide

SpecExclude == Init /\ [][NextExclude]_vars

----------------------------------------------------------------------------
(* Claims about the granularity of the series (SpecQuery) *)

\* C20: without a granularity in the request, an answered range of at most 2 local
\* calendar days is served in hourly buckets and a longer one in daily buckets; with a
\* granularity in the request, that one is used
C20_DefaultGranularityByRangeLength ==
    api.op = "daily-v2" /\ api.status = 200 =>
        IF api.q.granularity # "" THEN api.granularity = api.q.granularity
        ELSE api.granularity =
                 IF api.range.to - api.range.from + 1 <= 2 THEN "hour" ELSE "day"

----------------------------------------------------------------------------
(* Claims about refunds in the series (SpecQuery) *)

\* the refunds <<order, index>> that an answered series counts: stored with their order,
\* created within the answered bounds, of an order the request lets through
RefundsCounted(r) ==
    {x \in UNION {{<<id, i>> : i \in 1..Len(shopifyOrderRaw[id][1].payload.refunds)} :
                     id \in {j \in OrderIds : shopifyOrderRaw[j] # <<>>
                                               /\ orderIncomeV1[j] # <<>>}} :
        LET at == shopifyOrderRaw[x[1]][1].payload.refunds[x[2]].createdAt
        IN  /\ at >= r.startUtc
            /\ at <= r.endUtc
            /\ \/ r.op = "daily-v2" /\ r.q.includeExcluded
               \/ orderIncomeV1[x[1]][1].excluded = FALSE}

\* the granularity of an answered series; /internal/income/daily is always by day
SeriesGranularity(r) == IF r.op = "daily" THEN "day" ELSE r.granularity

\* C21: in every bucketed series (daily and daily-v2) the refunds of a bucket are the
\* amounts of the refunds whose own creation time falls in that bucket; a refund adds
\* nothing to the bucket of its order's processedAt when that is another bucket
C21_RefundsBucketedByRefundTime ==
    api.status = 200 /\ api.op \in {"daily", "daily-v2"} =>
        \A i \in DOMAIN api.data :
            api.data[i].refunds =
                SumOver([x \in {y \in RefundsCounted(api) :
                                   BucketOf(api.timezone, SeriesGranularity(api),
                                            shopifyOrderRaw[y[1]][1].payload
                                                .refunds[y[2]].createdAt)
                                       = api.data[i].date}
                            |-> RefundOf(x)])

\* the same, for the series of daily-v2 alone
C21_DailyV2RefundsBucketedByRefundTime ==
    api.op = "daily-v2" => C21_RefundsBucketedByRefundTime

----------------------------------------------------------------------------
(* The calculators on their own: each action applies one pure function of the source
   to inputs drawn from a small set, and api records the call and what it returned *)

\* refund nodes of the platform: the reported total is negative, zero or positive; the
\* line items are none, one, several (one of them without subtotalSet), or one negative
RefundNodes(id) ==
    {Refund(id, EdgeTime, total, lines) :
        total \in {-3, 0, 7},
        lines \in {<<>>,
                   <<<<Money(5, ShopCurrency)>>>>,
                   <<<<Money(5, ShopCurrency)>>, <<>>, <<Money(2, ShopCurrency)>>>>,
                   <<<<Money(-2, ShopCurrency)>>>>}}

\* an order with one or two refunds is normalized by mapOrderToNormalized, as the sync
\* does, and each of its refunds is resolved by refundAmountExpr, as the series do
ResolveRefund ==
    /\ api.op = "none"
    /\ \E refunds \in {<<a>> : a \in RefundNodes(1)}
                        \cup {<<a, b>> : a \in RefundNodes(1), b \in RefundNodes(2)} :
          LET o == [Node(1, EdgeTime, "paid") EXCEPT !.refunds = refunds]
          IN  /\ mapOrderError(o) = ""
              /\ api' = [op |-> "refundAmount", status |-> 0, order |-> o,
                         normalized |-> mapOrderToNormalized(o).refunds,
                         expr |-> [i \in DOMAIN refunds |-> refundAmountExpr(refunds[i])]]
    /\ UNCHANGED <<source, clock, shopConfig, syncState, shopifyOrderRaw, orderIncomeV1,
                   syncRunLog, run, hist, prev, budget>>

\* the normalized orders the calculator is applied to, all in the shop's currency:
\* with or without subtotal, shipping, tax and discounts
CalcOrders ==
    {[id |-> 1, processedAt |-> EdgeTime, currencyCode |-> ShopCurrency, isTest |-> FALSE,
      cancelledAt |-> NoTime, lineItemsSubtotal |-> Money(s, ShopCurrency),
      shippingAmount |-> Money(h, ShopCurrency), taxAmount |-> Money(x, ShopCurrency),
      discountAmount |-> Money(d, ShopCurrency)] :
        s \in {0, 10}, h \in {0, 2}, x \in {0, 1}, d \in {0, 3}}

\* their refunds: the lists of NormalizedRefunds, and lists with a refund in another
\* currency
CalcRefunds ==
    LET foreign == [id |-> 3, createdAt |-> EdgeTime, amount |-> Money(5, "USD")]
    IN  NormalizedRefunds \cup {<<foreign>>}
            \cup {Append(r, foreign) : r \in NormalizedRefunds \ {<<>>}}

\* computeIncomeComponents is applied to one order and its refunds; it throws where a
\* currency assertion fails
Compute ==
    /\ api.op = "none"
    /\ \E order \in CalcOrders : \E refunds \in CalcRefunds :
          api' = [op |-> "computeIncomeComponents", status |-> 0, order |-> order,
                  refunds |-> refunds,
                  error |-> IF componentsOk(order, refunds) THEN ""
                            ELSE "Currency mismatch",
                  result |-> IF componentsOk(order, refunds)
                             THEN <<computeIncomeComponents(order, refunds)>>
                             ELSE <<>>]
    /\ UNCHANGED <<source, clock, shopConfig, syncState, shopifyOrderRaw, orderIncomeV1,
                   syncRunLog, run, hist, prev, budget>>

\* Money values in the shop's currency and in another one
MoneyValues == {Money(a, c) : a \in {-1, 0, 5}, c \in Currencies}

\* addMoney, subMoney or cmpMoney is called on two Money values; each asserts the same
\* currency first and throws where the assertion fails
MoneyOp ==
    /\ api.op = "none"
    /\ \E f \in {"addMoney", "subMoney", "cmpMoney"} :
       \E a \in MoneyValues : \E b \in MoneyValues :
          api' = [op |-> f, status |-> 0, a |-> a, b |-> b,
                  error |-> IF assertSameCurrency(a, b) THEN "" ELSE "Currency mismatch",
                  result |-> IF ~assertSameCurrency(a, b) THEN <<>>
                             ELSE IF f = "addMoney" THEN <<addMoney(a, b)>>
                             ELSE IF f = "subMoney" THEN <<subMoney(a, b)>>
                             ELSE <<cmpMoney(a, b)>>]
    /\ UNCHANGED <<source, clock, shopConfig, syncState, shopifyOrderRaw, orderIncomeV1,
                   syncRunLog, run, hist, prev, budget>>

\* the current and previous values a delta is computed for
DeltaAmounts == {-10, -1, 0, 1, 3, 10, 99, 100, 101, 201}

\* computeDeltaPercent is called on a current and a previous value
Delta ==
    /\ api.op = "none"
    /\ \E current \in DeltaAmounts : \E previous \in DeltaAmounts :
          api' = [op |-> "computeDeltaPercent", status |-> 0, current |-> current,
                  previous |-> previous, result |-> computeDeltaPercent(current, previous)]
    /\ UNCHANGED <<source, clock, shopConfig, syncState, shopifyOrderRaw, orderIncomeV1,
                   syncRunLog, run, hist, prev, budget>>

\* getPreviousPeriodLocalRange is called on two local dates, and both periods are
\* resolved by parseLocalDateRangeToUtc in the zone, as the routes do
PreviousPeriod ==
    /\ api.op = "none"
    /\ \E tz \in Zones : \E from \in 0..LastDay : \E to \in 0..LastDay :
          LET previous == getPreviousPeriodLocalRange(from, to, tz)
          IN  api' = [op |-> "getPreviousPeriodLocalRange", status |-> 0,
                      timezone |-> tz, from |-> from, to |-> to, previous |-> previous,
                      currentUtc |-> parseLocalDateRangeToUtc(from, to, tz),
                      previousUtc |-> IF previous.error # "" THEN previous
                                      ELSE parseLocalDateRangeToUtc(previous.from,
                                                                    previous.to, tz)]
    /\ UNCHANGED <<source, clock, shopConfig, syncState, shopifyOrderRaw, orderIncomeV1,
                   syncRunLog, run, hist, prev, budget>>

NextCalc ==
    \/ ResolveRefund
    \/ Compute
    \/ MoneyOp
    \/ Delta
    \/ PreviousPeriod

SpecCalc == Init /\ [][NextCalc]_vars

----------------------------------------------------------------------------
(* Claims about the calculators (SpecCalc) *)

\* the amount of a refund node by the rule: the reported total, or the sum of the line
\* items' subtotals when the total is exactly zero
TotalOrLines(node) ==
    IF node.totalRefundedSet.amount # 0 THEN node.totalRefundedSet.amount
    ELSE SumOver([i \in DOMAIN node.refundLineItems |->
                    IF node.refundLineItems[i] = <<>> THEN 0
                    ELSE node.refundLineItems[i][1].amount])

\* C22: at ingestion (mapOrderToNormalized) and in the aggregation by event time
\* (refundAmountExpr) the amount of each refund, taken on its own, is the reported total
\* refunded, or the sum of its line items' subtotals when that total is exactly zero
C22_RefundAmountIsTotalOrLinesWhenZero ==
    api.op = "refundAmount" =>
        \A i \in DOMAIN api.order.refunds :
            /\ api.normalized[i].amount.amount = TotalOrLines(api.order.refunds[i])
            /\ api.expr[i] = TotalOrLines(api.order.refunds[i])

\* the same where no reported amount is negative
C22_HoldsForNonNegativeAmounts ==
    /\ api.op = "refundAmount"
    /\ \A i \in DOMAIN api.order.refunds :
          /\ api.order.refunds[i].totalRefundedSet.amount >= 0
          /\ \A k \in DOMAIN api.order.refunds[i].refundLineItems :
                api.order.refunds[i].refundLineItems[k] # <<>> =>
                    api.order.refunds[i].refundLineItems[k][1].amount >= 0
    => C22_RefundAmountIsTotalOrLinesWhenZero

\* C23: for an order and refunds in one currency, gross income = subtotal + shipping,
\* the refunds total = the sum of the refund amounts, and net income = gross - refunds
\* total; the tax and the discounts enter neither gross nor net
C23_GrossNetAndRefundsTotal ==
    api.op = "computeIncomeComponents" /\ api.error = "" =>
        LET c == api.order.currencyCode
            gross == api.order.lineItemsSubtotal.amount + api.order.shippingAmount.amount
            refundsTotal ==
                SumOver([i \in DOMAIN api.refunds |-> api.refunds[i].amount.amount])
        IN  /\ api.result[1].income_bruto = Money(gross, c)
            /\ api.result[1].refunds = Money(refundsTotal, c)
            /\ api.result[1].income_neto = Money(gross - refundsTotal, c)

\* the calculator returned for an order with subtotal, shipping, tax and discounts and
\* two refunds: gross 12, refunds 12, net 0
C23_Witness ==
    /\ api.op = "computeIncomeComponents"
    /\ api.error = ""
    /\ api.order.lineItemsSubtotal.amount = 10
    /\ api.order.shippingAmount.amount = 2
    /\ api.order.taxAmount.amount = 1
    /\ api.order.discountAmount.amount = 3
    /\ Len(api.refunds) = 2
    /\ api.result[1].income_bruto.amount = 12
    /\ api.result[1].refunds.amount = 12
    /\ api.result[1].income_neto.amount = 0

----------------------------------------------------------------------------
(* Claims about the amounts a sync stores (SpecLive) *)

\* the order a stored raw payload normalizes to
StoredOrder(id) == mapOrderToNormalized(shopifyOrderRaw[id][1].payload).order

\* the stored shipping, tax and discounts are those of the normalized order
InputsOtherThanSubtotalStored(id) ==
    /\ orderIncomeV1[id][1].shippingAmount = StoredOrder(id).shippingAmount.amount
    /\ orderIncomeV1[id][1].taxAmount = StoredOrder(id).taxAmount.amount
    /\ orderIncomeV1[id][1].discountAmount = StoredOrder(id).discountAmount.amount

\* C24: every order_income_v1 row holds the four input amounts of its order as
\* normalized from the payload: line_items_subtotal is the order's subtotal after
\* discounts, and shipping, tax and discounts are the order's
C24_RowHoldsFourInputAmounts ==
    \A id \in OrderIds :
        orderIncomeV1[id] # <<>> =>
            /\ orderIncomeV1[id][1].lineItemsSubtotal
                  = StoredOrder(id).lineItemsSubtotal.amount
            /\ InputsOtherThanSubtotalStored(id)

\* the same without the subtotal
C24_RowHoldsShippingTaxDiscounts ==
    \A id \in OrderIds : orderIncomeV1[id] # <<>> => InputsOtherThanSubtotalStored(id)

\* C25: for two Money values of different currencies addMoney, subMoney and cmpMoney
\* each throw a currency mismatch and return nothing; where one returns a Money, both
\* operands and the result are in one currency (nothing is converted or ignored)
C25_DifferentCurrenciesAlwaysThrow ==
    api.op \in {"addMoney", "subMoney", "cmpMoney"} =>
        /\ api.a.currencyCode # api.b.currencyCode =>
              api.error = "Currency mismatch" /\ api.result = <<>>
        /\ api.result # <<>> /\ api.op # "cmpMoney" =>
              /\ api.result[1].currencyCode = api.a.currencyCode
              /\ api.result[1].currencyCode = api.b.currencyCode

\* one of the three was called on an amount in MXN and one in USD, and threw
C25_Witness ==
    /\ api.op \in {"addMoney", "subMoney", "cmpMoney"}
    /\ api.a = Money(5, "MXN")
    /\ api.b = Money(5, "USD")
    /\ api.error = "Currency mismatch"
    /\ api.result = <<>>

\* C27: for every local range [from, to] with from <= to the previous period has as
\* many local calendar days as [from, to] and its last day is the day before from, so
\* its span of time ends strictly before the span of the current period starts, also
\* where a day of either period has 23 or 25 hours
C27_PreviousPeriodSameLengthJustBefore ==
    api.op = "getPreviousPeriodLocalRange" /\ api.from <= api.to =>
        /\ api.previous.error = ""
        /\ api.previous.to - api.previous.from = api.to - api.from
        /\ api.previous.to = api.from - 1
        /\ api.previousUtc.error = ""
        /\ api.currentUtc.error = ""
        /\ api.previousUtc.startUtc <= api.previousUtc.endUtc
        /\ api.previousUtc.endUtc < api.currentUtc.startUtc

\* the previous period of the day after the clocks went back was computed: it is the
\* day of 25 hours, and it ends in the hour before the current day starts
C27_Witness ==
    /\ api.op = "getPreviousPeriodLocalRange"
    /\ api.timezone = "clocksGoBack"
    /\ api.from = 2
    /\ api.to = 2
    /\ api.previous = [error |-> "", from |-> 1, to |-> 1]
    /\ api.previousUtc.endUtc - api.previousUtc.startUtc = 24
    /\ api.previousUtc.endUtc + 1 = api.currentUtc.startUtc

\* C28: with previous = 0, computeDeltaPercent returns percent change 0 and "flat" for
\* current = 0, null and "up" for current > 0, null and "down" for current < 0; a
\* nonzero current over a zero previous never has a number as its percent change
C28_DeltaOverZeroPrevious ==
    api.op = "computeDeltaPercent" /\ api.previous = 0 =>
        /\ api.current = 0 => api.result = [percentChange |-> <<0>>, direction |-> "flat"]
        /\ api.current > 0 => api.result = [percentChange |-> <<>>, direction |-> "up"]
        /\ api.current < 0 => api.result = [percentChange |-> <<>>, direction |-> "down"]

\* the delta of 10 over 0 was computed
C28_Witness ==
    /\ api.op = "computeDeltaPercent"
    /\ api.previous = 0
    /\ api.current = 10
    /\ api.result.percentChange = <<>>
    /\ api.result.direction = "up"

\* the examples of the tests: 101 over 100 is 1 percent up, 99 over 100 is 1 percent
\* down, 100 over 100 is flat
DeltaExamples ==
    api.op = "computeDeltaPercent" /\ api.previous = 100 =>
        /\ api.current = 101 => api.result = [percentChange |-> <<100>>, direction |-> "up"]
        /\ api.current = 99 => api.result = [percentChange |-> <<-100>>, direction |-> "down"]
        /\ api.current = 100 => api.result = [percentChange |-> <<0>>, direction |-> "flat"]

----------------------------------------------------------------------------
(* Claims about failures while a query is served (SpecCompare) *)

\* the comparison asked for is in the answer: the previous period's series, or its
\* summary and the deltas
ComparisonComplete(r) ==
    /\ r.comparison # <<>>
    /\ r.op = "summary-v2" => r.deltas # <<>>

\* C26: a query with compare answers with the complete aggregate or with an error:
\* when a part of the computation fails, the comparison period included, the answer is
\* an error, and an answer that is not an error carries the comparison it was asked for
C26_CompleteAggregateOrError ==
    api.op \in {"daily-v2", "summary-v2"} /\ api.q.compare =>
        /\ api.fault # "none" => api.status # 200
        /\ api.status = 200 => ComparisonComplete(api)

\* the same for a failure while the current range is aggregated
C26_CurrentRangeFailureIsAnError ==
    api.op \in {"daily-v2", "summary-v2"} /\ api.q.compare /\ api.fault = "current" =>
        api.status = 500 /\ api.error # ""

\* without a failure of the store the series of daily-v2 carries its comparison
C26_DailyV2ComparisonWithoutFailure ==
    api.op = "daily-v2" /\ api.q.compare /\ api.status = 200 /\ api.fault = "none" =>
        ComparisonComplete(api)

\* ---------------------------------------------------------------------------------
\* Claims about the pagination loop of a sync run (SpecLive)
\* ---------------------------------------------------------------------------------

\* the step takes run p from the page it has asked for to the request of another page
GoesRoundAgain(p) ==
    /\ run[p].pc \in {"fetch", "node", "derive"}
    /\ run'[p].pc = "fetch"
    /\ run'[p] # run[p]

\* the step takes run p out of the loop over the pages, to the writes of a success
LeavesTheLoop(p) ==
    /\ run[p].pc \in {"fetch", "node", "derive"}
    /\ run'[p].pc = "saveState"

\* C29: a run that has started ends (in success, in failure or with the process), and
\* while it lasts the loop over the pages asks for another page only when the page it
\* has just been through reported a next page, asks for it with a cursor beyond the one
\* it asked the last page with (so no page and no cursor is asked for twice), and
\* leaves the loop only after a page that reported no next page
C29_PaginationTerminates ==
    /\ Active(1) ~> (run[1].pc = "done")
    /\ [][\A p \in DOMAIN run :
             /\ GoesRoundAgain(p) =>
                    /\ run'[p].hasNextPage
                    /\ run'[p].after > run[p].after
             /\ LeavesTheLoop(p) => ~run'[p].hasNextPage]_vars

\* a run has ended in success after two requests: the first page held one order and
\* reported a next page, the second reported none
C29_Witness ==
    /\ run[1].pc = "done"
    /\ run[1].outcome = "success"
    /\ run[1].ordersFetched = 2
    /\ run[1].after = 2
    /\ ~run[1].hasNextPage

\* a success row of the run log, by its place in the log
SuccessRow(i) == i \in DOMAIN syncRunLog /\ syncRunLog[i].status = "success"

\* the records the run in the worker's slot has passed over for want of processedAt
PassedOver == {node \in hist[1].reached : node.processedAt = NoTime}

\* C30: in every row of the run log with status success the counts reconcile,
\* ordersFetched = ordersUpserted + ordersExcluded
C30_SuccessCountsReconcile ==
    \A i \in DOMAIN syncRunLog :
        SuccessRow(i) =>
            syncRunLog[i].ordersFetched
                = syncRunLog[i].ordersUpserted + syncRunLog[i].ordersExcluded

\* C30, on the runs it does hold for: a run in the worker's slot that ends in success
\* without having passed over a record has counts that reconcile in its row
C30_ReconcileWhenNoRecordPassedOver ==
    (/\ run[1].pc = "done"
     /\ run[1].outcome = "success"
     /\ PassedOver = {})
        => /\ SuccessRow(run[1].runLogId)
           /\ syncRunLog[run[1].runLogId].ordersFetched
                  = syncRunLog[run[1].runLogId].ordersUpserted
                        + syncRunLog[run[1].runLogId].ordersExcluded

====
